---- MODULE Spec2Model ----
(***************************************************************************)
(* Verification model of flashduty-mcp-server: the cross-entity enrichment *)
(* engine (ID collection, batch resolvers, errgroup fan-out, join), the    *)
(* timeline detail transformer, the Streamable-HTTP session configuration  *)
(* and the credential masking of the API client.                           *)
(***************************************************************************)
EXTENDS Integers, Sequences, FiniteSets, TLC

(***************************************************************************)
(* Bounds                                                                  *)
(***************************************************************************)
\* largest entity identifier of a fan-out call (0 is the "not set" sentinel)
MaxID == 1
\* largest number of raw records handed to one enrichment call
MaxRecs == 1
\* largest length of a nested list (responders, layer targets)
MaxList == 1
\* largest number of layers of an escalation rule
MaxLayers == 1

\* largest person identifier in a timeline detail handed to the transformer
MaxDetailID == 2
\* largest length of a list inside a timeline detail handed to the transformer
MaxDetailLen == 2

IDs == 0..MaxID

(***************************************************************************)
(* Generic helpers                                                         *)
(***************************************************************************)
Range(s) == {s[i] : i \in DOMAIN s}

SeqsUpTo(S, n) == UNION {[1..k -> S] : k \in 0..n}

NonEmptySeqsUpTo(S, n) == UNION {[1..k -> S] : k \in 1..n}

\* the sequences that list every element of S exactly once
Perms(S) == {p \in [1..Cardinality(S) -> S] : Range(p) = S}

(***************************************************************************)
(* Remote directory: the display attributes the bulk lookup APIs return    *)
(* for an identifier.  An empty sequence is Go's empty string.             *)
(***************************************************************************)
NoName == <<>>

PersonInfo(id) == [PersonID |-> id, PersonName |-> <<"person", id>>, Email |-> <<"mail", id>>]

TeamInfo(id) == [TeamID |-> id, TeamName |-> <<"team", id>>]

ScheduleInfo(id) == [ScheduleID |-> id, ScheduleName |-> <<"schedule", id>>]

ChannelInfo(id) == [ChannelID |-> id, ChannelName |-> <<"channel", id>>]

InfoOf(kind, id) ==
    CASE kind = "person" -> PersonInfo(id)
      [] kind = "team" -> TeamInfo(id)
      [] kind = "schedule" -> ScheduleInfo(id)
      [] kind = "channel" -> ChannelInfo(id)

\* a Go map keyed by identifier; the nil map and the empty map read alike
EmptyMap == [id \in {} |-> id]

\* the mapping a resolver builds from the items of a successful response
BuildMap(kind, returned) == [id \in returned |-> InfoOf(kind, id)]

(***************************************************************************)
(* Errors                                                                  *)
(***************************************************************************)
NilErr == [cause |-> "nil", op |-> "none"]

\* context.Canceled surfaced by the lookup of one kind
CancelErr(kind) == [cause |-> "canceled", op |-> kind]

\* transport or API-level failure of the lookup of one kind
ApiErr(kind) == [cause |-> "api", op |-> kind]

(***************************************************************************)
(* Raw records, as decoded from the remote API                             *)
(***************************************************************************)
IncidentIDs == {"i1", "i2"}

RawResponderSet == [PersonID : IDs]

RawIncidentSet ==
    [IncidentID : IncidentIDs, ChannelID : IDs, CreatorID : IDs, CloserID : IDs,
     Responders : SeqsUpTo(RawResponderSet, MaxList)]

\* ChannelInfo values handed to enrichChannels (names not yet filled in)
RawChannelSet ==
    [ChannelID : IDs, TeamID : IDs, CreatorID : IDs, TeamName : {NoName}, CreatorName : {NoName}]

\* schedule_to_role_ids: a Go map from schedule ID to role IDs
ScheduleToRoleIDsSet ==
    UNION {[K -> {<<1>>}] : K \in {K \in SUBSET IDs : Cardinality(K) <= MaxList}}

\* target.by is a pointer: nil, or the direct-message configuration
NilBy == [nil |-> TRUE, FollowPreference |-> FALSE, Critical |-> <<>>]

NilTargetLayer ==
    [HasTarget |-> FALSE, PersonIDs |-> <<>>, TeamIDs |-> <<>>, ScheduleToRoleIDs |-> EmptyMap,
     By |-> NilBy, Webhooks |-> <<>>]

\* the layers handed to the fan-out: by and webhooks hold no identifier and
\* are left out there
RawLayerSet ==
    {NilTargetLayer} \cup
    [HasTarget : {TRUE}, PersonIDs : SeqsUpTo(IDs, MaxList), TeamIDs : SeqsUpTo(IDs, MaxList),
     ScheduleToRoleIDs : ScheduleToRoleIDsSet, By : {NilBy}, Webhooks : {<<>>}]

RawEscalationRuleSet == [ChannelID : IDs, Layers : SeqsUpTo(RawLayerSet, MaxLayers)]

RawChangeSet == [ChannelID : IDs, CreatorID : IDs]

\* a JSON value inside a timeline detail: numbers decode to float64, and
\* n is the number (0 for a string)
DetailElems == [t : {"float64"}, n : IDs] \cup {[t |-> "string", n |-> 0]}

\* the value of a detail field: a JSON array ([]interface{}) or something else
DetailValues ==
    [t : {"list"}, l : SeqsUpTo(DetailElems, MaxList)] \cup {[t |-> "scalar", l |-> <<>>]}

PersonFields == {"to", "person_ids"}

\* Detail: a nil map, or a map holding some of the person-bearing fields
NilDetail == [nil |-> TRUE, m |-> <<>>]

DetailSet ==
    {NilDetail} \cup
    [nil : {FALSE}, m : UNION {[K -> DetailValues] : K \in SUBSET PersonFields}]

TimelineTypes == {"i_notify", "i_assign", "i_a_rspd", "i_ack"}

RawTimelineItemSet == [Type : TimelineTypes, PersonID : IDs, Detail : DetailSet]

(***************************************************************************)
(* The fan-out call sites                                                  *)
(***************************************************************************)
Kinds == {"person", "team", "schedule", "channel"}

Sites ==
    {"enrichIncidents", "enrichChannels", "QueryEscalationRules", "QueryChanges",
     "QueryIncidentTimeline"}

\* the lookups each call site starts with g.Go
SiteKinds(s) ==
    CASE s = "enrichIncidents" -> {"person", "channel"}
      [] s = "enrichChannels" -> {"team", "person"}
      [] s = "QueryEscalationRules" -> {"person", "team", "schedule", "channel"}
      [] s = "QueryChanges" -> {"channel", "person"}
      [] s = "QueryIncidentTimeline" -> {"person"}

\* the inputs a call site can be handed: the raw records and, for
\* query_escalation_rules, the channel_id argument of the tool (RequiredInt
\* returns int(v) of a nonzero number v, which is 0 for a fraction)
SiteInputs(s) ==
    CASE s = "enrichIncidents" -> [channelID : {0}, items : SeqsUpTo(RawIncidentSet, MaxRecs)]
      [] s = "enrichChannels" -> [channelID : {0}, items : SeqsUpTo(RawChannelSet, MaxRecs)]
      [] s = "QueryEscalationRules" ->
            [channelID : IDs, items : NonEmptySeqsUpTo(RawEscalationRuleSet, MaxRecs)]
      [] s = "QueryChanges" -> [channelID : {0}, items : NonEmptySeqsUpTo(RawChangeSet, MaxRecs)]
      [] s = "QueryIncidentTimeline" ->
            [channelID : {0}, items : SeqsUpTo(RawTimelineItemSet, MaxRecs)]

(***************************************************************************)
(* ID Collector                                                            *)
(***************************************************************************)
\* if id != 0 { ids = append(ids, id) }
NonZero(id) == IF id # 0 THEN <<id>> ELSE <<>>

RECURSIVE Flatten(_)
Flatten(ss) == IF ss = <<>> THEN <<>> ELSE Head(ss) \o Flatten(Tail(ss))

IsNonZero(id) == id # 0

IncidentPersonIDs(inc) ==
    NonZero(inc.CreatorID) \o NonZero(inc.CloserID) \o
    SelectSeq([i \in 1..Len(inc.Responders) |-> inc.Responders[i].PersonID], IsNonZero)

\* the set of sequences obtained by concatenating one choice per position
RECURSIVE ConcatChoices(_)
ConcatChoices(choices) ==
    IF choices = <<>> THEN {<<>>}
    ELSE {a \o b : a \in Head(choices), b \in ConcatChoices(Tail(choices))}

\* ranging over a Go map visits the keys in an unspecified order
LayerScheduleIDs(l) ==
    {SelectSeq(p, IsNonZero) : p \in Perms(DOMAIN l.ScheduleToRoleIDs)}

RuleScheduleIDs(r) == ConcatChoices([i \in 1..Len(r.Layers) |-> LayerScheduleIDs(r.Layers[i])])

RulePersonIDs(r) ==
    Flatten([i \in 1..Len(r.Layers) |-> SelectSeq(r.Layers[i].PersonIDs, IsNonZero)])

RuleTeamIDs(r) ==
    Flatten([i \in 1..Len(r.Layers) |-> SelectSeq(r.Layers[i].TeamIDs, IsNonZero)])

\* toInt64: the type switch accepts float64, int64 and int
toInt64(v) == IF v.t = "float64" THEN [n |-> v.n, ok |-> TRUE] ELSE [n |-> 0, ok |-> FALSE]

RECURSIVE ExtractIDs(_)
ExtractIDs(values) ==
    IF values = <<>> THEN <<>>
    ELSE LET c == toInt64(Head(values))
         IN (IF c.ok /\ c.n # 0 THEN <<c.n>> ELSE <<>>) \o ExtractIDs(Tail(values))

\* the identifiers extractPersonIDsFromDetail appends for one field
extractPersonIDsFromDetail(detail, field) ==
    IF field \in DOMAIN detail.m /\ detail.m[field].t = "list"
    THEN ExtractIDs(detail.m[field].l)
    ELSE <<>>

\* faulty variant: `to` and `person_ids` are read whatever the item's type
ItemPersonIDsNoDispatch(item) ==
    NonZero(item.PersonID) \o
    (IF item.Detail.nil THEN <<>>
     ELSE extractPersonIDsFromDetail(item.Detail, "to") \o
          extractPersonIDsFromDetail(item.Detail, "person_ids"))

\* what one iteration of the loop of collectTimelinePersonIDs appends
ItemPersonIDs(item) ==
    NonZero(item.PersonID) \o
    (IF item.Detail.nil THEN <<>>
     ELSE IF item.Type \in {"i_assign", "i_a_rspd"}
     THEN extractPersonIDsFromDetail(item.Detail, "to") \o
          extractPersonIDsFromDetail(item.Detail, "person_ids")
     ELSE IF item.Type = "i_notify"
     THEN extractPersonIDsFromDetail(item.Detail, "to")
     ELSE <<>>)

\* faulty variant: only the operators are collected
collectTimelineOperatorsOnly(items) ==
    Flatten([i \in 1..Len(items) |-> NonZero(items[i].PersonID)])

collectTimelinePersonIDs(items) == Flatten([i \in 1..Len(items) |-> ItemPersonIDs(items[i])])

NoIDs == [k \in Kinds |-> <<>>]

\* the identifier lists a call site can collect from its input, per kind
CollectIDs(s, in) ==
    LET items == in.items
        n == Len(items)
    IN CASE s = "enrichIncidents" ->
              {[NoIDs EXCEPT
                  !["person"] = Flatten([i \in 1..n |-> IncidentPersonIDs(items[i])]),
                  !["channel"] = Flatten([i \in 1..n |-> NonZero(items[i].ChannelID)])]}
         [] s = "enrichChannels" ->
              {[NoIDs EXCEPT
                  !["team"] = Flatten([i \in 1..n |-> NonZero(items[i].TeamID)]),
                  !["person"] = Flatten([i \in 1..n |-> NonZero(items[i].CreatorID)])]}
         [] s = "QueryEscalationRules" ->
              {[NoIDs EXCEPT
                  !["person"] = Flatten([i \in 1..n |-> RulePersonIDs(items[i])]),
                  !["team"] = Flatten([i \in 1..n |-> RuleTeamIDs(items[i])]),
                  !["schedule"] = sids,
                  !["channel"] = <<in.channelID>>] :
               sids \in ConcatChoices([i \in 1..n |-> RuleScheduleIDs(items[i])])}
         [] s = "QueryChanges" ->
              {[NoIDs EXCEPT
                  !["channel"] = Flatten([i \in 1..n |-> NonZero(items[i].ChannelID)]),
                  !["person"] = Flatten([i \in 1..n |-> NonZero(items[i].CreatorID)])]}
         [] s = "QueryIncidentTimeline" ->
              {[NoIDs EXCEPT !["person"] = collectTimelinePersonIDs(items)]}

(***************************************************************************)
(* Batch Resolver                                                          *)
(***************************************************************************)
\* idSet: the distinct nonzero identifiers of the argument
UniqueIDs(ids) == {id \in Range(ids) : id # 0}

\* faulty variant: the second early return (no nonzero identifier) is missing
ShortCircuitLenOnly(ids) == Len(ids) = 0

\* the two early returns that answer without a request
ShortCircuit(ids) == Len(ids) = 0 \/ UniqueIDs(ids) = {}

\* faulty variant: the request carries the list as given, without deduplication
RequestBodiesNoDedup(ids) == {ids}

\* uniqueIDs: idSet listed in map-iteration order
RequestBodies(ids) == Perms(UniqueIDs(ids))

(***************************************************************************)
(* Join/Merge Builder                                                      *)
(***************************************************************************)
\* faulty variant: an unresolved person gets a default name
PersonNameDefault(personMap, id) ==
    IF id \in DOMAIN personMap THEN personMap[id].PersonName ELSE <<"unknown">>

\* if p, ok := personMap[id]; ok { x.PersonName = p.PersonName }
PersonNameIn(personMap, id) == IF id \in DOMAIN personMap THEN personMap[id].PersonName ELSE NoName

PersonEmailIn(personMap, id) == IF id \in DOMAIN personMap THEN personMap[id].Email ELSE NoName

TeamNameIn(teamMap, id) == IF id \in DOMAIN teamMap THEN teamMap[id].TeamName ELSE NoName

ScheduleNameIn(scheduleMap, id) ==
    IF id \in DOMAIN scheduleMap THEN scheduleMap[id].ScheduleName ELSE NoName

ChannelNameIn(channelMap, id) ==
    IF id \in DOMAIN channelMap THEN channelMap[id].ChannelName ELSE NoName

EnrichResponder(r, personMap) ==
    [PersonID |-> r.PersonID,
     PersonName |-> PersonNameIn(personMap, r.PersonID),
     Email |-> PersonEmailIn(personMap, r.PersonID)]

EnrichIncident(raw, personMap, channelMap) ==
    [IncidentID |-> raw.IncidentID,
     ChannelID |-> raw.ChannelID,
     CreatorID |-> raw.CreatorID,
     CloserID |-> raw.CloserID,
     ChannelName |-> ChannelNameIn(channelMap, raw.ChannelID),
     CreatorName |-> PersonNameIn(personMap, raw.CreatorID),
     CreatorEmail |-> PersonEmailIn(personMap, raw.CreatorID),
     CloserName |-> PersonNameIn(personMap, raw.CloserID),
     Responders |-> [i \in 1..Len(raw.Responders) |-> EnrichResponder(raw.Responders[i], personMap)]]

\* faulty variant: the identifier of an unresolved team is cleared
EnrichChannelClearUnresolved(ch, teamMap, personMap) ==
    [ch EXCEPT
       !.TeamID = IF ch.TeamID \in DOMAIN teamMap THEN @ ELSE 0,
       !.TeamName = IF ch.TeamID \in DOMAIN teamMap THEN teamMap[ch.TeamID].TeamName ELSE @,
       !.CreatorName =
           IF ch.CreatorID \in DOMAIN personMap THEN personMap[ch.CreatorID].PersonName ELSE @]

\* enriched[i] = ch, then the two names are overwritten when resolved
EnrichChannel(ch, teamMap, personMap) ==
    [ch EXCEPT
       !.TeamName = IF ch.TeamID \in DOMAIN teamMap THEN teamMap[ch.TeamID].TeamName ELSE @,
       !.CreatorName =
           IF ch.CreatorID \in DOMAIN personMap THEN personMap[ch.CreatorID].PersonName ELSE @]

EnrichChange(item, channelMap, personMap) ==
    [ChannelID |-> item.ChannelID,
     CreatorID |-> item.CreatorID,
     ChannelName |-> ChannelNameIn(channelMap, item.ChannelID),
     CreatorName |-> PersonNameIn(personMap, item.CreatorID)]

PersonTarget(pid, personMap) ==
    [PersonID |-> pid,
     PersonName |-> PersonNameIn(personMap, pid),
     Email |-> PersonEmailIn(personMap, pid)]

TeamTarget(tid, teamMap) == [TeamID |-> tid, TeamName |-> TeamNameIn(teamMap, tid)]

ScheduleTarget(sid, roleIDs, scheduleMap) ==
    [ScheduleID |-> sid, RoleIDs |-> roleIDs, ScheduleName |-> ScheduleNameIn(scheduleMap, sid)]

\* target.NotifyBy: a new struct holding the fields of target.by
NotifyBy(by) ==
    IF by.nil THEN NilBy
    ELSE [nil |-> FALSE, FollowPreference |-> by.FollowPreference, Critical |-> by.Critical]

\* webhook settings: a nil map, or a map that may hold an alias
NilSettings == [nil |-> TRUE, m |-> EmptyMap]

\* whConfig: the alias is taken from the settings when it is a string
WebhookConfig(wh) ==
    [Type |-> wh.Type,
     Settings |-> wh.Settings,
     Alias |-> IF ~wh.Settings.nil /\ "alias" \in DOMAIN wh.Settings.m
                  /\ wh.Settings.m["alias"].t = "string"
               THEN wh.Settings.m["alias"].s
               ELSE NoName]

\* the layers a raw layer can be enriched to: the schedule targets are
\* appended while ranging over the schedule_to_role_ids map
EnrichLayer(idx, l, m) ==
    {[LayerIdx |-> idx,
      HasTarget |-> l.HasTarget,
      Persons |-> [i \in 1..Len(l.PersonIDs) |-> PersonTarget(l.PersonIDs[i], m["person"])],
      Teams |-> [i \in 1..Len(l.TeamIDs) |-> TeamTarget(l.TeamIDs[i], m["team"])],
      Schedules |->
          [i \in 1..Len(p) |-> ScheduleTarget(p[i], l.ScheduleToRoleIDs[p[i]], m["schedule"])],
      NotifyBy |-> NotifyBy(l.By),
      Webhooks |-> [i \in 1..Len(l.Webhooks) |-> WebhookConfig(l.Webhooks[i])]] :
     p \in Perms(DOMAIN l.ScheduleToRoleIDs)}

\* the sequences that take position i from choices[i]
RECURSIVE SeqChoices(_)
SeqChoices(choices) ==
    IF choices = <<>> THEN {<<>>}
    ELSE {<<a>> \o b : a \in Head(choices), b \in SeqChoices(Tail(choices))}

EnrichRule(r, m) ==
    {[ChannelID |-> r.ChannelID,
      ChannelName |-> ChannelNameIn(m["channel"], r.ChannelID),
      Layers |-> ls] :
     ls \in SeqChoices([i \in 1..Len(r.Layers) |-> EnrichLayer(i - 1, r.Layers[i], m)])}

(***************************************************************************)
(* Timeline Detail Transformer                                             *)
(***************************************************************************)
\* faulty variant: the entry always carries a person_name key
PersonEntryAlwaysName(id, personMap) ==
    [person_id |-> id, person_name |-> PersonNameIn(personMap, id)]

\* entry := map[string]any{"person_id": id}, plus person_name when resolved
PersonEntry(id, personMap) ==
    IF id \in DOMAIN personMap
    THEN [person_id |-> id, person_name |-> personMap[id].PersonName]
    ELSE [person_id |-> id]

RECURSIVE EnrichValues(_, _)
EnrichValues(values, personMap) ==
    IF values = <<>> THEN <<>>
    ELSE LET c == toInt64(Head(values))
         IN (IF c.ok THEN <<PersonEntry(c.n, personMap)>> ELSE <<>>) \o
            EnrichValues(Tail(values), personMap)

\* Go maps and slices are references.  The heap of one call holds map cells
\* (field -> [t, ref]) and slice cells (sequences); the caller's map is the
\* cell InputCell and its lists are the slice cells <<InputCell, field>>.
InputCell == <<"detail", "">>
CopyCell == <<"enriched", "">>
NilRef == <<"", "">>
\* the slice make([]map[string]any, 0, len(values)) allocates for a field
FreshSlice(field) == <<"enrichedValues", field>>

ListFieldsOf(m) == {f \in DOMAIN m : m[f].t # "scalar"}

\* the heap that holds the caller's detail map m and nothing else
Load(m) ==
    [maps |-> [c \in {InputCell} |->
                 [f \in DOMAIN m |->
                    [t |-> m[f].t,
                     ref |-> IF m[f].t = "scalar" THEN NilRef ELSE <<InputCell[1], f>>]]],
     slices |-> [c \in {<<InputCell[1], f>> : f \in ListFieldsOf(m)} |-> m[c[2]].l]]

\* the contents of a map cell, its slices read through their references
Deref(heap, cell) ==
    [f \in DOMAIN heap.maps[cell] |->
        LET v == heap.maps[cell][f]
        IN [t |-> v.t, l |-> IF v.t = "scalar" THEN <<>> ELSE heap.slices[v.ref]]]

\* the heap after enrichPersonIDsField(enriched, field, personMap): a new
\* slice is built and bound to the field of the map enriched refers to
enrichPersonIDsField(heap, enriched, field, personMap) ==
    LET m == heap.maps[enriched]
    IN IF field \in DOMAIN m /\ m[field].t = "list"
       THEN [maps |-> [heap.maps EXCEPT
                          ![enriched][field] = [t |-> "persons", ref |-> FreshSlice(field)]],
             slices |-> (FreshSlice(field) :> EnrichValues(heap.slices[m[field].ref], personMap))
                            @@ heap.slices]
       ELSE heap

\* faulty variant: the map itself is returned instead of a copy
copyMapAlias(heap, m) == [heap |-> heap, ref |-> m]

\* a new map cell with the same keys bound to the same values (the slices
\* are shared: the copy is shallow)
copyMap(heap, m) ==
    [heap |-> [heap EXCEPT !.maps = (CopyCell :> [k \in DOMAIN heap.maps[m] |-> heap.maps[m][k]])
                                        @@ heap.maps],
     ref |-> CopyCell]

\* the body of enrichTimelineDetail for a non-nil detail: the returned
\* reference and the heap the call leaves behind
enrichTimelineDetailBody(eventType, heap, personMap) ==
    LET c == copyMap(heap, InputCell)
        enriched == c.ref
    IN [ref |-> enriched,
        heap |-> IF eventType = "i_notify"
                 THEN enrichPersonIDsField(c.heap, enriched, "to", personMap)
                 ELSE IF eventType \in {"i_assign", "i_a_rspd"}
                 THEN enrichPersonIDsField(
                          enrichPersonIDsField(c.heap, enriched, "to", personMap),
                          enriched, "person_ids", personMap)
                 ELSE c.heap]

\* faulty variant: the "to" field is rewritten whatever the event type
enrichTimelineDetailNoDispatch(eventType, detail, personMap) ==
    IF detail.nil THEN NilDetail
    ELSE LET c == copyMap(Load(detail.m), InputCell)
         IN [nil |-> FALSE,
             m |-> Deref(enrichPersonIDsField(c.heap, c.ref, "to", personMap), c.ref)]

\* the payload enrichTimelineDetail returns
enrichTimelineDetail(eventType, detail, personMap) ==
    IF detail.nil THEN NilDetail
    ELSE LET r == enrichTimelineDetailBody(eventType, Load(detail.m), personMap)
         IN [nil |-> FALSE, m |-> Deref(r.heap, r.ref)]

\* the caller's detail map as the call leaves it
DetailAfter(eventType, detail, personMap) ==
    IF detail.nil THEN NilDetail
    ELSE LET r == enrichTimelineDetailBody(eventType, Load(detail.m), personMap)
         IN [nil |-> FALSE, m |-> Deref(r.heap, InputCell)]

TimelineEvent(item, personMap) ==
    [Type |-> item.Type,
     OperatorID |-> item.PersonID,
     OperatorName |-> PersonNameIn(personMap, item.PersonID),
     Detail |-> enrichTimelineDetail(item.Type, item.Detail, personMap)]

enrichTimelineItems(items, personMap) ==
    [i \in 1..Len(items) |-> TimelineEvent(items[i], personMap)]

\* the enriched records a call site can build from its input and the
\* resolved mappings m (one mapping per kind)
EnrichOutputs(s, in, m) ==
    LET items == in.items
        n == Len(items)
    IN CASE s = "enrichIncidents" ->
              {[i \in 1..n |-> EnrichIncident(items[i], m["person"], m["channel"])]}
         [] s = "enrichChannels" ->
              {[i \in 1..n |-> EnrichChannel(items[i], m["team"], m["person"])]}
         [] s = "QueryEscalationRules" ->
              SeqChoices([i \in 1..n |-> EnrichRule(items[i], m)])
         [] s = "QueryChanges" ->
              {[i \in 1..n |-> EnrichChange(items[i], m["channel"], m["person"])]}
         [] s = "QueryIncidentTimeline" -> {enrichTimelineItems(items, m["person"])}

(***************************************************************************)
(* Fan-Out Coordinator: one enrichment call                                *)
(***************************************************************************)
VARIABLES
    site,           \* the call site that runs the enrichment
    input,          \* its raw records (and channel_id argument)
    pc,             \* "collect", "fanout" or "done"
    ids,            \* the identifier list collected per kind
    task,           \* per kind: "absent", "ready", "inflight" or "done"
    maps,           \* the resolved-mapping variable of each kind
    writers,        \* per resolved-mapping variable: the tasks that have written it
    taskErr,        \* the error each lookup returned to its task
    groupErr,       \* the first error recorded by the errgroup
    ctxDone,        \* the caller's context is cancelled
    gctxDone,       \* the errgroup's derived context is cancelled
    doneAtCancel,   \* the lookups that had completed when ctx was cancelled
    requests,       \* per kind: the lookup requests handed to the transport
    ret             \* what the call returned

fanVars ==
    <<site, input, pc, ids, task, maps, writers, taskErr, groupErr, ctxDone, gctxDone,
      doneAtCancel, requests, ret>>

\* one call of enrichTimelineDetail
VARIABLES
    eventType,      \* the item's type tag
    detail,         \* the item's raw detail payload
    personMap,      \* the resolved person mapping
    enrichedDetail, \* the returned payload, once the call has returned
    detailAfter     \* the caller's payload, once the call has returned

detailVars == <<eventType, detail, personMap, enrichedDetail, detailAfter>>

\* the MCP server and one client session
VARIABLES
    transport,       \* "stdio" or "http"
    serverReadOnly,  \* FlashdutyConfig.ReadOnly handed to NewMCPServer
    tools,           \* the tools registered on the MCP server
    readOnlyParam,   \* read_only query value of the session's URL ("" if absent)
    connected,       \* the session's request context has been built
    sessionReadOnly, \* ReadOnly of the configuration stored in that context
    listed,          \* the answer to the session's last tools/list
    lastCall         \* the session's last tools/call and whether it ran

httpVars ==
    <<transport, serverReadOnly, tools, readOnlyParam, connected, sessionReadOnly, listed,
      lastCall>>

\* one makeRequest call of a client
VARIABLES
    appKey,      \* Client.appKey, a string of characters
    method,      \* the HTTP method of the call
    path,        \* the path argument, split at its "?"
    reqPc,       \* "start", "logged", "done"
    logged,      \* the url attribute of the "duty request" log line
    returnedErr  \* the text of the error makeRequest returned

maskVars == <<appKey, method, path, reqPc, logged, returnedErr>>


\* one incoming request carrying W3C trace context headers
VARIABLES
    traceparent,   \* the traceparent header value, a string of characters
    tracestate,    \* the tracestate header value
    tracePc,       \* "start", "parsed", "formatted", "reparsed", "resolved"
    parsed,        \* what ParseTraceparent returned for the header
    formatted,     \* what ToTraceparent returned for the parsed context
    reparsed,      \* what ParseTraceparent returned for the formatted value
    resolved       \* what FromHTTPHeadersOrNew returned for the headers

traceVars == <<traceparent, tracestate, tracePc, parsed, formatted, reparsed, resolved>>


\* one TruncateBody call
VARIABLES
    truncBody,          \* the body argument, a string of characters
    maxSize,       \* the maxSize argument
    previewSize,   \* the previewSize argument
    truncPc,       \* "start" or "done"
    truncated      \* what the call returned, or that it panicked

truncVars == <<truncBody, maxSize, previewSize, truncPc, truncated>>


\* one create_status_incident tool call
VARIABLES
    statusArgs,    \* request.GetArguments(): a map from argument name to JSON value
    statusPc,      \* "start", "sent" or "done"
    statusBody,    \* the request body posted to /status-page/change/create
    statusResult   \* what the handler returned

statusVars == <<statusArgs, statusPc, statusBody, statusResult>>


\* the join loops of enrichIncidents and query_escalation_rules run on one
\* raw record, once per execution
VARIABLES
    joinInput,     \* the raw record: an incident or an escalation layer
    joinMaps,      \* the resolved mappings, by kind
    joinOut        \* the enriched record each execution so far has built

joinVars == <<joinInput, joinMaps, joinOut>>


\* one call of collectTimelinePersonIDs, then of enrichTimelineItems
VARIABLES
    timeline,         \* the items argument
    collected,        \* the returned identifiers, once the call has returned
    timelinePersons,  \* the person mapping looked up for the collected identifiers
    events            \* the enriched timeline, once built

collectVars == <<timeline, collected, timelinePersons, events>>


\* one tool call that fetches per incident: query_incidents with alert
\* previews, query_incident_alerts or query_incident_timeline
VARIABLES
    incTool,        \* the tool
    incidentIDs,    \* the incidents of the call, in request order
    incPc,          \* "fanout", "lookup" or "done"
    fetchTask,      \* per position: "running" or "done"
    fetchErr,       \* per position: the error the task returned
    results,        \* the result slots
    slotWriters,    \* per slot: the positions whose task has written it
    waitErr,        \* the first error recorded by the errgroup
    incCtxDone,     \* the caller's context is cancelled
    incGctxDone,    \* the errgroup's derived context is cancelled
    personLookups,  \* the identifier lists handed to fetchPersonInfos
    lookupErr,      \* the error of the person lookup
    toolResult      \* what the handler returned

incVars ==
    <<incTool, incidentIDs, incPc, fetchTask, fetchErr, results, slotWriters, waitErr,
      incCtxDone, incGctxDone, personLookups, lookupErr, toolResult>>


\* concurrent tool calls of HTTP requests, each obtaining its client
VARIABLES
    reqQuery,     \* per request: the app_key and base_url of its URL ("" if absent)
    getPc,        \* per request: "load", "create" or "done"
    clientCache,  \* clientCache: from APP key to the stored Client
    constructed,  \* the Clients NewClient has constructed, in order
    gotClient     \* per request: what getClient returned

clientVars == <<reqQuery, getPc, clientCache, constructed, gotClient>>


\* one call of the update_incident tool
VARIABLES
    updArgs,        \* the arguments of the call
    updPc,          \* the handler's position
    pendingFields,  \* custom fields not yet ranged over
    applied,        \* the updates the remote API has applied, in order
    updatedFields,  \* updatedFields
    updResult       \* the tool result

updVars == <<updArgs, updPc, pendingFields, applied, updatedFields, updResult>>


\* one call of enrichIncidents or enrichChannels, taken as a whole
VARIABLES
    shapeSite,   \* the function called
    shapeItems,  \* its raw records
    shapeMaps,   \* the mappings its lookups left
    shapeRet     \* what it returned

shapeVars == <<shapeSite, shapeItems, shapeMaps, shapeRet>>

vars == <<fanVars, detailVars, httpVars, maskVars, traceVars, truncVars, statusVars, joinVars, collectVars, incVars, clientVars, updVars, shapeVars>>

\* the variables of the other components, which a component leaves alone
fanFrame == <<detailVars, httpVars, maskVars, traceVars, truncVars, statusVars, joinVars, collectVars, incVars, clientVars, updVars, shapeVars>>

detailFrame == <<fanVars, httpVars, maskVars, traceVars, truncVars, statusVars, joinVars, collectVars, incVars, clientVars, updVars, shapeVars>>

httpFrame == <<fanVars, detailVars, maskVars, traceVars, truncVars, statusVars, joinVars, collectVars, incVars, clientVars, updVars, shapeVars>>

maskFrame == <<fanVars, detailVars, httpVars, traceVars, truncVars, statusVars, joinVars, collectVars, incVars, clientVars, updVars, shapeVars>>

traceFrame == <<fanVars, detailVars, httpVars, maskVars, truncVars, statusVars, joinVars, collectVars, incVars, clientVars, updVars, shapeVars>>

truncFrame == <<fanVars, detailVars, httpVars, maskVars, traceVars, statusVars, joinVars, collectVars, incVars, clientVars, updVars, shapeVars>>

statusFrame == <<fanVars, detailVars, httpVars, maskVars, traceVars, truncVars, joinVars, collectVars, incVars, clientVars, updVars, shapeVars>>

joinFrame == <<fanVars, detailVars, httpVars, maskVars, traceVars, truncVars, statusVars, collectVars, incVars, clientVars, updVars, shapeVars>>

collectFrame == <<fanVars, detailVars, httpVars, maskVars, traceVars, truncVars, statusVars, joinVars, incVars, clientVars, updVars, shapeVars>>

incFrame == <<fanVars, detailVars, httpVars, maskVars, traceVars, truncVars, statusVars, joinVars, collectVars, clientVars, updVars, shapeVars>>

clientFrame == <<fanVars, detailVars, httpVars, maskVars, traceVars, truncVars, statusVars, joinVars, collectVars, incVars, updVars, shapeVars>>

updFrame == <<fanVars, detailVars, httpVars, maskVars, traceVars, truncVars, statusVars, joinVars, collectVars, incVars, clientVars, shapeVars>>

shapeFrame == <<fanVars, detailVars, httpVars, maskVars, traceVars, truncVars, statusVars, joinVars, collectVars, incVars, clientVars, updVars>>

Pending == [status |-> "pending", err |-> NilErr, out |-> <<>>]

FanInit ==
    /\ site \in Sites
    /\ input \in SiteInputs(site)
    /\ pc = "collect"
    /\ ids = NoIDs
    /\ task = [k \in Kinds |-> "absent"]
    /\ maps = [k \in Kinds |-> EmptyMap]
    /\ writers = [k \in Kinds |-> {}]
    /\ taskErr = [k \in Kinds |-> NilErr]
    /\ groupErr = NilErr
    /\ ctxDone = FALSE
    /\ gctxDone = FALSE
    /\ doneAtCancel = {}
    /\ requests = [k \in Kinds |-> <<>>]
    /\ ret = Pending

\* the call sites that run their lookups in an errgroup; query_incident_timeline
\* calls fetchPersonInfos directly, on the caller's context
UsesErrgroup(s) == s # "QueryIncidentTimeline"

\* faulty variant: every call site propagates a lookup error
HardFailAllSites(s) == TRUE

\* the call sites that propagate a lookup error: the task returns it to the
\* errgroup and the caller checks g.Wait() (or the direct call's error)
HardFail(s) == s \in {"enrichIncidents", "QueryIncidentTimeline"}

\* faulty variant: every task assigns to the person mapping
MapVarShared(s, k) == "person"

\* the resolved-mapping variable the task of kind k assigns to: each closure
\* names the variable of its own kind (personMap, teamMap, scheduleMap,
\* channelMap)
MapVar(s, k) == k

\* the mapping a task leaves in its variable, given what the resolver returned
TaskMap(s, m, err) == IF err # NilErr THEN EmptyMap ELSE m

\* faulty variant: no task returns the lookup error
TaskReturnSwallow(s, err) == NilErr

\* faulty variant: every task returns the lookup error to the errgroup
TaskReturnPropagate(s, err) == err

\* the error a task returns to the errgroup
TaskReturn(s, err) == IF HardFail(s) THEN err ELSE NilErr

\* if len(channels) == 0 { return channels, nil }
ReturnsBeforeFanOut(s, in) == s = "enrichChannels" /\ Len(in.items) = 0

\* the ID collection that precedes the fan-out, and errgroup.WithContext
Collect ==
    /\ pc = "collect"
    /\ IF ReturnsBeforeFanOut(site, input)
       THEN /\ pc' = "done"
            /\ ret' = [status |-> "ok", err |-> NilErr, out |-> input.items]
            /\ UNCHANGED <<ids, task>>
       ELSE /\ pc' = "fanout"
            /\ ids' \in CollectIDs(site, input)
            /\ task' = [k \in Kinds |-> IF k \in SiteKinds(site) THEN "ready" ELSE "absent"]
            /\ ret' = ret
    /\ UNCHANGED <<site, input, maps, writers, taskErr, groupErr, ctxDone, gctxDone, doneAtCancel,
                   requests, fanFrame>>

\* the caller cancels its context (or its deadline passes) during the call
Cancel ==
    /\ pc # "done"
    /\ ~ctxDone
    /\ ctxDone' = TRUE
    /\ gctxDone' = TRUE
    /\ doneAtCancel' = {k \in Kinds : task[k] = "done"}
    /\ UNCHANGED <<site, input, pc, ids, task, maps, writers, taskErr, groupErr, requests, ret,
                   fanFrame>>

\* faulty variant: a lookup that failed in the API is started again
FinishRetry(k, m, err) ==
    IF err.cause = "api"
    THEN /\ task' = [task EXCEPT ![k] = "ready"]
         /\ UNCHANGED <<taskErr, maps, writers, groupErr, gctxDone>>
    ELSE /\ task' = [task EXCEPT ![k] = "done"]
         /\ taskErr' = [taskErr EXCEPT ![k] = err]
         /\ maps' = [maps EXCEPT ![MapVar(site, k)] = TaskMap(site, m, err)]
         /\ writers' = [writers EXCEPT ![MapVar(site, k)] = @ \cup {k}]
         /\ IF TaskReturn(site, err) # NilErr /\ groupErr = NilErr
            THEN groupErr' = TaskReturn(site, err) /\ gctxDone' = (UsesErrgroup(site) \/ gctxDone)
            ELSE UNCHANGED <<groupErr, gctxDone>>

\* faulty variant: the errgroup keeps the last error returned to it
FinishLastError(k, m, err) ==
    /\ task' = [task EXCEPT ![k] = "done"]
    /\ taskErr' = [taskErr EXCEPT ![k] = err]
    /\ maps' = [maps EXCEPT ![MapVar(site, k)] = TaskMap(site, m, err)]
    /\ writers' = [writers EXCEPT ![MapVar(site, k)] = @ \cup {k}]
    /\ IF TaskReturn(site, err) # NilErr
       THEN groupErr' = TaskReturn(site, err) /\ gctxDone' = (UsesErrgroup(site) \/ gctxDone)
       ELSE UNCHANGED <<groupErr, gctxDone>>

\* a lookup returns (m, err) to its task, and the task returns to the group:
\* the first non-nil error is recorded and cancels the derived context
Finish(k, m, err) ==
    /\ task' = [task EXCEPT ![k] = "done"]
    /\ taskErr' = [taskErr EXCEPT ![k] = err]
    /\ maps' = [maps EXCEPT ![MapVar(site, k)] = TaskMap(site, m, err)]
    /\ writers' = [writers EXCEPT ![MapVar(site, k)] = @ \cup {k}]
    /\ IF TaskReturn(site, err) # NilErr /\ groupErr = NilErr
       THEN groupErr' = TaskReturn(site, err) /\ gctxDone' = (UsesErrgroup(site) \/ gctxDone)
       ELSE UNCHANGED <<groupErr, gctxDone>>

\* fetchXInfos up to makeRequest: the empty-input early returns, or the
\* request is handed to the transport (which refuses a cancelled context)
StartLookup(k) ==
    /\ pc = "fanout"
    /\ task[k] = "ready"
    /\ IF ShortCircuit(ids[k])
       THEN Finish(k, EmptyMap, NilErr) /\ UNCHANGED requests
       ELSE IF gctxDone
       THEN Finish(k, EmptyMap, CancelErr(k)) /\ UNCHANGED requests
       ELSE /\ \E body \in RequestBodies(ids[k]) :
                 requests' = [requests EXCEPT ![k] = Append(@, body)]
            /\ task' = [task EXCEPT ![k] = "inflight"]
            /\ UNCHANGED <<maps, writers, taskErr, groupErr, gctxDone>>
    /\ UNCHANGED <<site, input, pc, ids, ctxDone, doneAtCancel, ret, fanFrame>>

\* the remote API answers with the records of some of the requested
\* identifiers; the resolver builds the mapping from the returned items
RespondOK(k) ==
    /\ pc = "fanout"
    /\ task[k] = "inflight"
    /\ ~gctxDone
    /\ \E returned \in SUBSET Range(requests[k][Len(requests[k])]) :
          Finish(k, BuildMap(k, returned), NilErr)
    /\ UNCHANGED <<site, input, pc, ids, ctxDone, doneAtCancel, requests, ret, fanFrame>>

\* the request fails in the transport or the API reports an error
RespondFail(k) ==
    /\ pc = "fanout"
    /\ task[k] = "inflight"
    /\ ~gctxDone
    /\ Finish(k, EmptyMap, ApiErr(k))
    /\ UNCHANGED <<site, input, pc, ids, ctxDone, doneAtCancel, requests, ret, fanFrame>>

\* an in-flight request observes the cancellation of its context
Abort(k) ==
    /\ pc = "fanout"
    /\ task[k] = "inflight"
    /\ gctxDone
    /\ Finish(k, EmptyMap, CancelErr(k))
    /\ UNCHANGED <<site, input, pc, ids, ctxDone, doneAtCancel, requests, ret, fanFrame>>

\* faulty variant: g.Wait() returns as soon as an error has been recorded
WaitAndJoinEarly ==
    /\ pc = "fanout"
    /\ (\A k \in SiteKinds(site) : task[k] = "done") \/ groupErr # NilErr
    /\ pc' = "done"
    /\ gctxDone' = (UsesErrgroup(site) \/ gctxDone)
    /\ IF HardFail(site) /\ groupErr # NilErr
       THEN ret' = [status |-> "error", err |-> groupErr, out |-> <<>>]
       ELSE \E out \in EnrichOutputs(site, input, maps) :
               ret' = [status |-> "ok", err |-> NilErr, out |-> out]
    /\ UNCHANGED <<site, input, ids, task, maps, writers, taskErr, groupErr, ctxDone, doneAtCancel,
                   requests, fanFrame>>

\* g.Wait() returns once every task has returned; then the join
WaitAndJoin ==
    /\ pc = "fanout"
    /\ \A k \in SiteKinds(site) : task[k] = "done"
    /\ pc' = "done"
    /\ gctxDone' = (UsesErrgroup(site) \/ gctxDone)
    /\ IF HardFail(site) /\ groupErr # NilErr
       THEN ret' = [status |-> "error", err |-> groupErr, out |-> <<>>]
       ELSE \E out \in EnrichOutputs(site, input, maps) :
               ret' = [status |-> "ok", err |-> NilErr, out |-> out]
    /\ UNCHANGED <<site, input, ids, task, maps, writers, taskErr, groupErr, ctxDone, doneAtCancel,
                   requests, fanFrame>>

FanNext ==
    \/ Collect
    \/ Cancel
    \/ \E k \in Kinds : StartLookup(k)
    \/ \E k \in Kinds : RespondOK(k)
    \/ \E k \in Kinds : RespondFail(k)
    \/ \E k \in Kinds : Abort(k)
    \/ WaitAndJoin

\* no enrichment call is running
FanIdle ==
    /\ site = "none"
    /\ input = [channelID |-> 0, items |-> <<>>]
    /\ pc = "idle"
    /\ ids = NoIDs
    /\ task = [k \in Kinds |-> "absent"]
    /\ maps = [k \in Kinds |-> EmptyMap]
    /\ writers = [k \in Kinds |-> {}]
    /\ taskErr = [k \in Kinds |-> NilErr]
    /\ groupErr = NilErr
    /\ ctxDone = FALSE
    /\ gctxDone = FALSE
    /\ doneAtCancel = {}
    /\ requests = [k \in Kinds |-> <<>>]
    /\ ret = Pending

(***************************************************************************)
(* The detail transformer on its own: enrichTimelineDetail applied to any  *)
(* payload and any person mapping                                          *)
(***************************************************************************)
DetailIDs == 0..MaxDetailID

TransformElems == [t : {"float64"}, n : DetailIDs] \cup {[t |-> "string", n |-> 0]}

TransformValues ==
    [t : {"list"}, l : SeqsUpTo(TransformElems, MaxDetailLen)] \cup {[t |-> "scalar", l |-> <<>>]}

TransformDetails ==
    {NilDetail} \cup
    [nil : {FALSE}, m : UNION {[K -> TransformValues] : K \in SUBSET PersonFields}]

\* the recognised event types and one the transformer does not know
TransformTypes == TimelineTypes \cup {"i_custom"}

NotCalled == [nil |-> TRUE, m |-> <<"not called">>]

DetailIdle ==
    /\ eventType = "none"
    /\ detail = NilDetail
    /\ personMap = EmptyMap
    /\ enrichedDetail = NotCalled
    /\ detailAfter = NotCalled

DetailInit ==
    /\ eventType \in TransformTypes
    /\ detail \in TransformDetails
    /\ \E K \in SUBSET (1..MaxDetailID) : personMap = BuildMap("person", K)
    /\ enrichedDetail = NotCalled
    /\ detailAfter = NotCalled

Transform ==
    /\ enrichedDetail = NotCalled
    /\ enrichedDetail' = enrichTimelineDetail(eventType, detail, personMap)
    /\ detailAfter' = DetailAfter(eventType, detail, personMap)
    /\ UNCHANGED <<eventType, detail, personMap, detailFrame>>

(***************************************************************************)
(* MCP server construction and per-session configuration                   *)
(***************************************************************************)
\* the tools DefaultToolsetGroup adds with AddReadTools
ReadTools ==
    {"query_incidents", "query_incident_timeline", "query_incident_alerts",
     "list_similar_incidents", "query_changes", "query_status_pages", "list_status_changes",
     "query_members", "query_teams", "query_channels", "query_escalation_rules", "query_fields"}

\* the tools DefaultToolsetGroup adds with AddWriteTools
WriteTools ==
    {"create_incident", "update_incident", "ack_incident", "close_incident",
     "create_status_incident", "create_change_timeline"}

AllTools == ReadTools \cup WriteTools

\* NewToolsetGroup(readOnly), EnableToolsets(all), RegisterAll: a read-only
\* group registers the read tools only
RegisterAll(readOnly) == IF readOnly THEN ReadTools ELSE AllTools

\* queryParams.Get("read_only") == "true"
ReadOnlyFromQuery(param) == param = "true"

NoCall == [tool |-> "none", ran |-> FALSE]

NotListed == {"not listed"}

\* RunStdioServer builds the server from the --read-only flag; RunHTTPServer
\* builds one server for all sessions from a config that leaves ReadOnly unset
HttpInit ==
    /\ transport \in {"stdio", "http"}
    /\ IF transport = "stdio"
       THEN serverReadOnly \in BOOLEAN /\ readOnlyParam = ""
       ELSE serverReadOnly = FALSE /\ readOnlyParam \in {"", "true", "false"}
    /\ tools = RegisterAll(serverReadOnly)
    /\ connected = (transport = "stdio")
    /\ sessionReadOnly = serverReadOnly
    /\ listed = NotListed
    /\ lastCall = NoCall

HttpIdle ==
    /\ transport = "none"
    /\ serverReadOnly = FALSE
    /\ tools = {}
    /\ readOnlyParam = ""
    /\ connected = FALSE
    /\ sessionReadOnly = FALSE
    /\ listed = NotListed
    /\ lastCall = NoCall

\* WithHTTPContextFunc: httpContextFunc stores the request's configuration
\* in the context of the session's request
HTTPContext ==
    /\ transport = "http"
    /\ ~connected
    /\ connected' = TRUE
    /\ sessionReadOnly' = ReadOnlyFromQuery(readOnlyParam)
    /\ UNCHANGED <<transport, serverReadOnly, tools, readOnlyParam, listed, lastCall, httpFrame>>

\* tools/list answers with the tools registered on the server
ListTools ==
    /\ connected
    /\ listed' = tools
    /\ UNCHANGED <<transport, serverReadOnly, tools, readOnlyParam, connected, sessionReadOnly,
                   lastCall, httpFrame>>

\* tools/call runs the handler of a registered tool, and fails for any other
CallTool(t) ==
    /\ connected
    /\ lastCall' = [tool |-> t, ran |-> t \in tools]
    /\ UNCHANGED <<transport, serverReadOnly, tools, readOnlyParam, connected, sessionReadOnly,
                   listed, httpFrame>>

(***************************************************************************)
(* Request construction and credential masking (strings are sequences of   *)
(* one-character strings; positions are Go's, counted from 0)              *)
(***************************************************************************)
MaxKeyLen == 2

KeyChars == {"7", "9"}

AppKeys == NonEmptySeqsUpTo(KeyChars, MaxKeyLen)

\* s[from:to]
Slice(s, from, to) == SubSeq(s, from + 1, to)

\* strings.Index: the first position of pat in s, or -1
Index(s, pat) ==
    LET hits == {i \in 0..(Len(s) - Len(pat)) : Slice(s, i, i + Len(pat)) = pat}
    IN  IF hits = {} THEN -1 ELSE CHOOSE i \in hits : \A j \in hits : i <= j

\* strings.IndexAny: the first position in s of a character of chars, or -1
IndexAny(s, chars) ==
    LET hits == {i \in 0..(Len(s) - 1) : s[i + 1] \in chars}
    IN  IF hits = {} THEN -1 ELSE CHOOSE i \in hits : \A j \in hits : i <= j

Contains(s, pat) == Index(s, pat) # -1

\* url.QueryEscape of one character
EscapeChar(c) ==
    CASE c = "[" -> <<"%", "5", "B">>
      [] c = "]" -> <<"%", "5", "D">>
      [] c = "&" -> <<"%", "2", "6">>
      [] c = "=" -> <<"%", "3", "D">>
      [] c = " " -> <<"+">>
      [] OTHER -> <<c>>

RECURSIVE QueryEscape(_)
QueryEscape(v) == IF v = <<>> THEN <<>> ELSE EscapeChar(Head(v)) \o QueryEscape(Tail(v))

\* url.QueryUnescape
RECURSIVE QueryUnescape(_)
QueryUnescape(v) ==
    IF v = <<>> THEN <<>>
    ELSE IF Head(v) = "+" THEN <<" ">> \o QueryUnescape(Tail(v))
    ELSE IF Head(v) = "%" /\ Len(v) >= 3
         THEN LET hex == Slice(v, 1, 3)
                  c == CASE hex = <<"5", "B">> -> "["
                         [] hex = <<"5", "D">> -> "]"
                         [] hex = <<"2", "6">> -> "&"
                         [] hex = <<"3", "D">> -> "="
                         [] OTHER -> "?"
              IN  <<c>> \o QueryUnescape(Slice(v, 3, Len(v)))
    ELSE <<Head(v)>> \o QueryUnescape(Tail(v))

AppKeyName == <<"a", "p", "p", "_", "k", "e", "y">>

PageIDName == <<"p", "a", "g", "e", "_", "i", "d">>

TypeName == <<"t", "y", "p", "e">>

\* the parameter names of the modelled requests, in sort.Strings order
SortedNames == <<AppKeyName, PageIDName, TypeName>>

\* url.ParseQuery: the pairs of a raw query, as a map from name to value
RECURSIVE ParseQuery(_)
ParseQuery(raw) ==
    IF raw = <<>> THEN EmptyMap
    ELSE LET amp == IndexAny(raw, {"&"})
             pair == IF amp = -1 THEN raw ELSE Slice(raw, 0, amp)
             rest == IF amp = -1 THEN <<>> ELSE Slice(raw, amp + 1, Len(raw))
             eq == IndexAny(pair, {"="})
             name == QueryUnescape(IF eq = -1 THEN pair ELSE Slice(pair, 0, eq))
             value == QueryUnescape(IF eq = -1 THEN <<>> ELSE Slice(pair, eq + 1, Len(pair)))
             others == ParseQuery(rest)
         IN  [n \in {name} \cup DOMAIN others |->
                 IF n \in DOMAIN others /\ n # name THEN others[n] ELSE value]

\* Values.Set
QuerySet(q, name, value) == [n \in DOMAIN q \cup {name} |-> IF n = name THEN value ELSE q[n]]

\* Values.Encode: name=value pairs in the order of the sorted names, joined by "&"
RECURSIVE EncodeFrom(_, _)
EncodeFrom(q, i) ==
    IF i > Len(SortedNames) THEN <<>>
    ELSE LET n == SortedNames[i]
             rest == EncodeFrom(q, i + 1)
         IN  IF n \notin DOMAIN q THEN rest
             ELSE QueryEscape(n) \o <<"=">> \o QueryEscape(q[n])
                      \o (IF rest = <<>> THEN <<>> ELSE <<"&">> \o rest)

Encode(q) == EncodeFrom(q, 1)

\* URL.String
URLString(u) == u.prefix \o (IF u.RawQuery = <<>> THEN <<>> ELSE <<"?">> \o u.RawQuery)

BaseURL == <<"h", "t", "t", "p", "s", ":", "/", "/", "h">>

Redacted == <<"[", "R", "E", "D", "A", "C", "T", "E", "D", "]">>

\* the URL makeRequest builds: the path resolved against the base URL, with
\* app_key set in its query
FullURL(key, pth) ==
    [prefix |-> BaseURL \o pth.path,
     RawQuery |-> Encode(QuerySet(ParseQuery(pth.query), AppKeyName, key))]

sanitizeURL(u) ==
    LET q == ParseQuery(u.RawQuery)
    IN  IF AppKeyName \in DOMAIN q
        THEN URLString([u EXCEPT !.RawQuery = Encode(QuerySet(q, AppKeyName, Redacted))])
        ELSE URLString(u)

RedactedParam == <<"a", "p", "p", "_", "k", "e", "y", "=", "[", "R", "E", "D", "A", "C", "T", "E", "D", "]">>

sanitizeError(errStr) ==
    LET idx == Index(errStr, AppKeyName \o <<"=">>)
        endIdx == IndexAny(Slice(errStr, idx, Len(errStr)), {"&", " "})
    IN  IF idx = -1 THEN errStr
        ELSE IF endIdx = -1 THEN Slice(errStr, 0, idx) \o RedactedParam
        ELSE Slice(errStr, 0, idx) \o RedactedParam \o Slice(errStr, idx + endIdx, Len(errStr))

\* the method of a url.Error: the request's method, first letter only in capitals
OpOf(m) == IF m = "GET" THEN <<"G", "e", "t">> ELSE <<"P", "o", "s", "t">>

MethodText(m) == IF m = "GET" THEN <<"G", "E", "T">> ELSE <<"P", "O", "S", "T">>

\* %q of a string without characters that need escaping
Quote(str) == <<"\"">> \o str \o <<"\"">>

\* what net/http reports below the url.Error of a failed round trip: the
\* connection broke, or the redirect the API answered with, which repeats
\* the request's query, could not be followed
TransportCauses(u) ==
    LET loc == Quote(<<":">> \o URLString(u))
    IN  {<<"E", "O", "F">>,
         <<"f", "a", "i", "l", "e", "d", " ", "t", "o", " ", "p", "a", "r", "s", "e", " ", "L", "o", "c", "a", "t", "i", "o", "n", " ", "h", "e", "a", "d", "e", "r", " ">> \o loc \o <<":", " ", "p", "a", "r", "s", "e", " ">> \o loc
             \o <<":", " ", "m", "i", "s", "s", "i", "n", "g", " ", "p", "r", "o", "t", "o", "c", "o", "l", " ", "s", "c", "h", "e", "m", "e">>}

\* url.Error.Error: Op "URL": Err
TransportErrors(m, u) ==
    {OpOf(m) \o <<" ">> \o Quote(URLString(u)) \o <<":", " ">> \o cause :
        cause \in TransportCauses(u)}

\* the requests of the tools: a POST to a plain path, and GETs whose path
\* carries a query
RequestPaths ==
    {[path |-> <<"/", "p">>, query |-> <<>>],
     [path |-> <<"/", "l">>, query |-> <<"p", "a", "g", "e", "_", "i", "d", "=", "1">>],
     [path |-> <<"/", "l">>, query |-> <<"p", "a", "g", "e", "_", "i", "d", "=", "1", "&", "t", "y", "p", "e", "=", "i">>]}

NoText == <<>>

MaskInit ==
    /\ appKey \in AppKeys
    /\ method \in {"GET", "POST"}
    /\ path \in RequestPaths
    /\ reqPc = "start"
    /\ logged = NoText
    /\ returnedErr = NoText

MaskIdle ==
    /\ appKey = <<>>
    /\ method = "none"
    /\ path = [path |-> <<>>, query |-> <<>>]
    /\ reqPc = "idle"
    /\ logged = NoText
    /\ returnedErr = NoText

\* makeRequest up to the "duty request" log line
LogRequest ==
    /\ reqPc = "start"
    /\ logged' = sanitizeURL(FullURL(appKey, path))
    /\ reqPc' = "logged"
    /\ UNCHANGED <<appKey, method, path, returnedErr, maskFrame>>

\* httpClient.Do answers: makeRequest returns the response
DoSucceeds ==
    /\ reqPc = "logged"
    /\ reqPc' = "done"
    /\ UNCHANGED <<appKey, method, path, logged, returnedErr, maskFrame>>

\* httpClient.Do fails: makeRequest returns the masked error
DoFails ==
    /\ reqPc = "logged"
    /\ \E err \in TransportErrors(method, FullURL(appKey, path)) :
           returnedErr' = <<"f", "a", "i", "l", "e", "d", " ", "t", "o", " ", "m", "a", "k", "e", " ", "r", "e", "q", "u", "e", "s", "t", " ", "t", "o", " ">> \o MethodText(method) \o <<" ">>
                              \o sanitizeURL(FullURL(appKey, path)) \o <<":", " ">>
                              \o sanitizeError(err)
    /\ reqPc' = "done"
    /\ UNCHANGED <<appKey, method, path, logged, maskFrame>>

(***************************************************************************)
(* W3C trace context                                                       *)
(***************************************************************************)
TraceIDLen == 32

SpanIDLen == 16

FlagsLen == 2

PartCount == 4

Version == <<"0", "0">>

LowerHex == <<"0", "1", "2", "3", "4", "5", "6", "7", "8", "9", "a", "b", "c", "d", "e", "f">>

UpperHex == <<"0", "1", "2", "3", "4", "5", "6", "7", "8", "9", "A", "B", "C", "D", "E", "F">>

\* strings.Split(s, sep) for a one-character separator
RECURSIVE Split(_, _)
Split(s, sep) ==
    LET i == IndexAny(s, {sep})
    IN  IF i = -1 THEN <<s>> ELSE <<Slice(s, 0, i)>> \o Split(Slice(s, i + 1, Len(s)), sep)

isHexDigit(c) == c \in Range(LowerHex) \cup Range(UpperHex)

isValidHex(s) == \A i \in 1..Len(s) : isHexDigit(s[i])

isAllZerosNever(s) == FALSE

isAllZeros(s) == \A i \in 1..Len(s) : s[i] = "0"

\* the value of one hexadecimal digit, in either case
HexVal(c) ==
    IF c \in Range(LowerHex)
    THEN (CHOOSE i \in 1..Len(LowerHex) : LowerHex[i] = c) - 1
    ELSE (CHOOSE i \in 1..Len(UpperHex) : UpperHex[i] = c) - 1

\* hex.DecodeString of two hexadecimal digits: one byte
DecodeByte(s) == 16 * HexVal(s[1]) + HexVal(s[2])

\* %02x of a byte
FormatByte(b) == <<LowerHex[(b \div 16) + 1], LowerHex[(b % 16) + 1]>>

NilContext == [ok |-> FALSE, TraceID |-> <<>>, SpanID |-> <<>>, TraceFlags |-> 0, TraceState |-> <<>>]

ParseTraceparent(header) ==
    LET parts == Split(header, "-")
    IN  IF Len(parts) # PartCount THEN NilContext
        ELSE IF parts[1] # Version THEN NilContext
        ELSE IF Len(parts[2]) # TraceIDLen \/ ~isValidHex(parts[2]) \/ isAllZeros(parts[2])
             THEN NilContext
        ELSE IF Len(parts[3]) # SpanIDLen \/ ~isValidHex(parts[3]) \/ isAllZeros(parts[3])
             THEN NilContext
        ELSE IF Len(parts[4]) # FlagsLen \/ ~isValidHex(parts[4]) THEN NilContext
        ELSE [ok |-> TRUE, TraceID |-> parts[2], SpanID |-> parts[3],
              TraceFlags |-> DecodeByte(parts[4]), TraceState |-> <<>>]

ToTraceparent(tc) ==
    Version \o <<"-">> \o tc.TraceID \o <<"-">> \o tc.SpanID \o <<"-">> \o FormatByte(tc.TraceFlags)

\* FromHTTPHeaders: nil for an absent or rejected traceparent, else the parsed
\* context with the tracestate header attached
FromHTTPHeaders(tp, ts) ==
    IF tp = <<>> THEN NilContext
    ELSE LET tc == ParseTraceparent(tp)
         IN  IF ~tc.ok THEN NilContext ELSE [tc EXCEPT !.TraceState = ts]

\* n copies of the character c
Rep(c, n) == [i \in 1..n |-> c]

\* NewTraceContext: identifiers are the lower-case hex encoding of random
\* bytes, the flags are 0x01
NewTraceContexts ==
    {[ok |-> TRUE, TraceID |-> Rep(c, TraceIDLen), SpanID |-> Rep(d, SpanIDLen), TraceFlags |-> 1,
      TraceState |-> <<>>] : c \in {"0", "7", "f"}, d \in {"0", "7", "f"}}

FromHTTPHeadersOrNew(tp, ts) ==
    LET tc == FromHTTPHeaders(tp, ts)
    IN  IF tc.ok THEN {tc} ELSE NewTraceContexts

\* the characters a sampled header part is made of
SampleChars == {"0", "b", "B", "g"}

\* sampled parts around a required length: one character repeated, or a
\* leading zero followed by one character repeated
SampleParts(n) ==
    {Rep(c, k) : c \in SampleChars, k \in {n - 1, n, n + 1}}
        \cup {<<"0">> \o Rep(c, n - 1) : c \in SampleChars}

SampleVersions == {<<"0", "0">>, <<"0", "1">>, <<"0">>}

SampleFlags ==
    {<<"0", "0">>, <<"0", "1">>, <<"0", "a">>, <<"0", "A">>, <<"f", "F">>, <<"1">>, <<"0", "0", "1">>, <<"0", "g">>}

\* Join(parts, "-")
RECURSIVE JoinParts(_)
JoinParts(parts) ==
    IF Len(parts) = 1 THEN parts[1] ELSE parts[1] \o <<"-">> \o JoinParts(Tail(parts))

\* sampled header values: absent, and three to five parts joined by "-"
SampleHeaders ==
    {<<>>}
        \cup {JoinParts(<<v, t, s>>) : v \in SampleVersions, t \in SampleParts(TraceIDLen),
                                       s \in {Rep("b", SpanIDLen)}}
        \cup {JoinParts(<<v, t, s, f>>) : v \in SampleVersions, t \in SampleParts(TraceIDLen),
                                          s \in SampleParts(SpanIDLen), f \in SampleFlags}
        \cup {JoinParts(<<v, t, s, f, f>>) : v \in {Version}, t \in {Rep("b", TraceIDLen)},
                                             s \in {Rep("b", SpanIDLen)}, f \in SampleFlags}

NotParsed == [NilContext EXCEPT !.TraceState = <<"not parsed">>]

TraceInit ==
    /\ traceparent \in SampleHeaders
    /\ tracestate \in {<<>>, <<"v">>}
    /\ tracePc = "start"
    /\ parsed = NotParsed
    /\ formatted = <<>>
    /\ reparsed = NotParsed
    /\ resolved = NotParsed

TraceIdle ==
    /\ traceparent = <<>>
    /\ tracestate = <<>>
    /\ tracePc = "idle"
    /\ parsed = NotParsed
    /\ formatted = <<>>
    /\ reparsed = NotParsed
    /\ resolved = NotParsed

\* ParseTraceparent(header)
Parse ==
    /\ tracePc = "start"
    /\ parsed' = ParseTraceparent(traceparent)
    /\ tracePc' = "parsed"
    /\ UNCHANGED <<traceparent, tracestate, formatted, reparsed, resolved, traceFrame>>

\* tc.ToTraceparent() of an accepted header's context
Format ==
    /\ tracePc = "parsed"
    /\ parsed.ok
    /\ formatted' = ToTraceparent(parsed)
    /\ tracePc' = "formatted"
    /\ UNCHANGED <<traceparent, tracestate, parsed, reparsed, resolved, traceFrame>>

\* ParseTraceparent of the formatted value
Reparse ==
    /\ tracePc = "formatted"
    /\ reparsed' = ParseTraceparent(formatted)
    /\ tracePc' = "reparsed"
    /\ UNCHANGED <<traceparent, tracestate, parsed, formatted, resolved, traceFrame>>

\* FromHTTPHeadersOrNew(headers)
Resolve ==
    /\ tracePc = "start"
    /\ resolved' \in FromHTTPHeadersOrNew(traceparent, tracestate)
    /\ tracePc' = "resolved"
    /\ UNCHANGED <<traceparent, tracestate, parsed, formatted, reparsed, traceFrame>>

(***************************************************************************)
(* Log truncation                                                          *)
(***************************************************************************)
\* longest body handed to TruncateBody
MaxBodyLen == 4
\* largest maxSize and previewSize handed to TruncateBody
MaxSize == 5

DecimalDigits == <<"0", "1", "2", "3", "4", "5", "6", "7", "8", "9">>

\* %d of a natural number
RECURSIVE Decimal(_)
Decimal(n) ==
    IF n < 10 THEN <<DecimalDigits[n + 1]>> ELSE Decimal(n \div 10) \o <<DecimalDigits[(n % 10) + 1]>>

LargeBodyPrefix == <<"[", "L", "A", "R", "G", "E", "_", "B", "O", "D", "Y", ":", " ", "t", "r", "u", "n", "c", "a", "t", "e", "d", ",", " ", "s", "i", "z", "e", ":", " ">>

LargeBodyMiddle == <<" ", "b", "y", "t", "e", "s", ",", " ", "p", "r", "e", "v", "i", "e", "w", ":", " ">>

LargeBodySuffix == <<".", ".", ".", "]">>

\* the format of a truncated body
LargeBody(size, preview) ==
    LargeBodyPrefix \o Decimal(size) \o LargeBodyMiddle \o preview \o LargeBodySuffix

\* the previewSize TruncateBody ends up slicing with
Clamp(bodyLen, max, preview) ==
    IF preview > bodyLen THEN bodyLen
    ELSE IF preview > max THEN max ELSE preview

Panic == [panic |-> TRUE, s |-> <<>>]

\* TruncateBody: body[:n] panics for a negative n
TruncateBody(b, max, preview) ==
    IF Len(b) <= max THEN [panic |-> FALSE, s |-> b]
    ELSE LET n == Clamp(Len(b), max, preview)
         IN  IF n < 0 THEN Panic
             ELSE [panic |-> FALSE, s |-> LargeBody(Len(b), Slice(b, 0, n))]

NotTruncated == [panic |-> FALSE, s |-> <<"not called">>]

TruncInit ==
    /\ truncBody \in SeqsUpTo({"x", "y"}, MaxBodyLen)
    /\ maxSize \in -1..MaxSize
    /\ previewSize \in -1..MaxSize
    /\ truncPc = "start"
    /\ truncated = NotTruncated

TruncIdle ==
    /\ truncBody = <<>>
    /\ maxSize = 0
    /\ previewSize = 0
    /\ truncPc = "idle"
    /\ truncated = NotTruncated

Truncate ==
    /\ truncPc = "start"
    /\ truncated' = TruncateBody(truncBody, maxSize, previewSize)
    /\ truncPc' = "done"
    /\ UNCHANGED <<truncBody, maxSize, previewSize, truncFrame>>

(***************************************************************************)
(* Tool arguments and the create_status_incident handler                   *)
(***************************************************************************)
\* a decoded JSON argument: a number, a string or a boolean
JNumber(n) == [t |-> "number", n |-> n, s |-> <<>>, b |-> FALSE]

JString(s) == [t |-> "string", n |-> 0, s |-> s, b |-> FALSE]

JBool(b) == [t |-> "bool", n |-> 0, s |-> <<>>, b |-> b]

\* the zero value of a Go type
ZeroOf(type) ==
    CASE type = "number" -> JNumber(0)
      [] type = "string" -> JString(<<>>)
      [] type = "bool" -> JBool(FALSE)

\* RequiredParam[T]: absent, wrongly typed and zero arguments are errors
RequiredParam(args, p, type) ==
    IF p \notin DOMAIN args THEN [err |-> "missing", val |-> ZeroOf(type)]
    ELSE IF args[p].t # type THEN [err |-> "type", val |-> ZeroOf(type)]
    ELSE IF args[p] = ZeroOf(type) THEN [err |-> "missing", val |-> ZeroOf(type)]
    ELSE [err |-> "nil", val |-> args[p]]

\* OptionalParam[T]: the zero value for an absent or wrongly typed argument
OptionalParam(args, p, type) ==
    IF p \notin DOMAIN args THEN [err |-> "nil", val |-> ZeroOf(type)]
    ELSE IF args[p].t # type THEN [err |-> "type", val |-> ZeroOf(type)]
    ELSE [err |-> "nil", val |-> args[p]]

\* strings.TrimSpace for blanks
RECURSIVE TrimLeft(_)
TrimLeft(s) == IF s # <<>> /\ Head(s) = " " THEN TrimLeft(Tail(s)) ELSE s

RECURSIVE TrimRight(_)
TrimRight(s) ==
    IF s # <<>> /\ s[Len(s)] = " " THEN TrimRight(SubSeq(s, 1, Len(s) - 1)) ELSE s

TrimSpace(s) == TrimRight(TrimLeft(s))

\* the non-empty strings of a sequence, in order
RECURSIVE NonEmptyOnly(_)
NonEmptyOnly(parts) ==
    IF parts = <<>> THEN <<>>
    ELSE (IF Head(parts) # <<>> THEN <<Head(parts)>> ELSE <<>>) \o NonEmptyOnly(Tail(parts))

parseCommaSeparatedStrings(s) ==
    IF s = <<>> THEN <<>>
    ELSE LET parts == Split(s, ",")
         IN  NonEmptyOnly([i \in 1..Len(parts) |-> TrimSpace(parts[i])])

\* strings.SplitN(part, ":", 2)
SplitN2(part) ==
    LET i == IndexAny(part, {":"})
    IN  IF i = -1 THEN <<part>> ELSE <<Slice(part, 0, i), Slice(part, i + 1, Len(part))>>

PartialOutage == <<"p", "a", "r", "t", "i", "a", "l", "_", "o", "u", "t", "a", "g", "e">>

\* the component change one "id:status" part stands for (none for an empty id
\* without status)
ComponentChange(part) ==
    LET kv == SplitN2(part)
    IN  IF Len(kv) = 2
        THEN <<[component_id |-> TrimSpace(kv[1]), status |-> TrimSpace(kv[2])]>>
        ELSE IF kv[1] # <<>>
        THEN <<[component_id |-> TrimSpace(kv[1]), status |-> PartialOutage]>>
        ELSE <<>>

RECURSIVE ComponentChanges(_)
ComponentChanges(parts) ==
    IF parts = <<>> THEN <<>> ELSE ComponentChange(Head(parts)) \o ComponentChanges(Tail(parts))

Investigating == <<"i", "n", "v", "e", "s", "t", "i", "g", "a", "t", "i", "n", "g">>

\* time.Now().Unix() when the handler runs
Times == {1700000000, 1700000001}

\* an optional entry of a request map
Absent == [present |-> FALSE, v |-> <<>>]

Present(v) == [present |-> TRUE, v |-> v]

\* the body create_status_incident posts, from its decoded arguments
StatusRequestBody(pageID, title, message, statusArg, affected, notify, now) ==
    LET status == IF statusArg = <<>> THEN Investigating ELSE statusArg
        changes == ComponentChanges(parseCommaSeparatedStrings(affected))
        update ==
            [at_seconds |-> now, status |-> status,
             description |-> IF message # <<>> THEN Present(message) ELSE Absent,
             component_changes |->
                 IF affected # <<>> /\ Len(changes) > 0 THEN Present(changes) ELSE Absent]
    IN  [page_id |-> pageID, title |-> title, type |-> "incident", status |-> status,
         description |-> IF message = <<>> THEN title ELSE message,
         updates |-> <<update>>, notify_subscribers |-> notify]

ArgNames ==
    {"page_id", "title", "message", "status", "affected_components", "notify_subscribers"}

\* the values a caller can pass for each argument
ArgValues(p) ==
    CASE p = "page_id" -> {JNumber(0), JNumber(1), JString(<<"1">>)}
      [] p = "title" -> {JString(<<>>), JString(<<"t">>)}
      [] p = "message" -> {JString(<<"m">>)}
      [] p = "status" -> {JString(<<"r", "e", "s", "o", "l", "v", "e", "d">>)}
      [] p = "affected_components" ->
            {JString(<<"a", ":", "d">>), JString(<<"a", ",", " ", "b", ":">>), JString(<<":">>)}
      [] p = "notify_subscribers" -> {JBool(TRUE), JBool(FALSE), JString(<<"y", "e", "s">>)}

\* an argument the caller left out
JAbsent == [t |-> "absent", n |-> 0, s |-> <<>>, b |-> FALSE]

ArgChoices(p) == ArgValues(p) \cup {JAbsent}

\* the argument map holding the arguments that were passed
ArgMap(c) == [p \in {q \in ArgNames : c[q] # JAbsent} |-> c[p]]

StatusArgSets ==
    {ArgMap([page_id |-> a, title |-> b, message |-> c, status |-> d,
             affected_components |-> e, notify_subscribers |-> f]) :
         a \in ArgChoices("page_id"), b \in ArgChoices("title"), c \in ArgChoices("message"),
         d \in ArgChoices("status"), e \in ArgChoices("affected_components"),
         f \in ArgChoices("notify_subscribers")}

NoBody == [sent |-> FALSE]

NoResult == [kind |-> "none"]

StatusInit ==
    /\ statusArgs \in StatusArgSets
    /\ statusPc = "start"
    /\ statusBody = NoBody
    /\ statusResult = NoResult

StatusIdle ==
    /\ statusArgs = EmptyMap
    /\ statusPc = "idle"
    /\ statusBody = NoBody
    /\ statusResult = NoResult

\* the handler up to client.makeRequest: argument errors end the call with a
\* tool error result
CreateStatusIncident ==
    /\ statusPc = "start"
    /\ LET pageID == RequiredParam(statusArgs, "page_id", "number")
           title == RequiredParam(statusArgs, "title", "string")
           message == OptionalParam(statusArgs, "message", "string").val.s
           status == OptionalParam(statusArgs, "status", "string").val.s
           affected == OptionalParam(statusArgs, "affected_components", "string").val.s
           notify == OptionalParam(statusArgs, "notify_subscribers", "bool").val.b
       IN  IF pageID.err # "nil"
           THEN /\ statusResult' = [kind |-> "tool_error", about |-> "page_id"]
                /\ statusPc' = "done"
                /\ UNCHANGED statusBody
           ELSE IF title.err # "nil"
           THEN /\ statusResult' = [kind |-> "tool_error", about |-> "title"]
                /\ statusPc' = "done"
                /\ UNCHANGED statusBody
           ELSE /\ \E now \in Times :
                       statusBody' =
                           [sent |-> TRUE,
                            body |-> StatusRequestBody(pageID.val.n, title.val.s, message, status,
                                                       affected, notify, now)]
                /\ statusPc' = "sent"
                /\ UNCHANGED statusResult
    /\ UNCHANGED <<statusArgs, statusFrame>>

\* the handler after client.makeRequest: a transport or decoding failure is
\* returned as an error, an API error as a tool error result, and the data
\* of a success as the tool result
StatusResponse(outcome) ==
    /\ statusPc = "sent"
    /\ statusResult' =
           CASE outcome = "transport" -> [kind |-> "error", about |-> "request"]
             [] outcome = "api" -> [kind |-> "tool_error", about |-> "api"]
             [] outcome = "ok" -> [kind |-> "result", about |-> "data"]
    /\ statusPc' = "done"
    /\ UNCHANGED <<statusArgs, statusBody, statusFrame>>

(***************************************************************************)
(* The join loops on their own: one raw incident or one raw escalation     *)
(* layer, rebuilt by successive executions on the same input               *)
(***************************************************************************)
\* largest identifier in a record handed to the join loops
MaxJoinID == 2
\* largest length of a nested list in a record handed to the join loops
MaxJoinList == 2
\* number of executions on the same input
MaxJoinRuns == 2

JoinIDs == 1..MaxJoinID

JoinSettings ==
    {NilSettings,
     [nil |-> FALSE, m |-> [alias |-> [t |-> "string", s |-> <<"ops">>]]],
     [nil |-> FALSE, m |-> [alias |-> [t |-> "number", s |-> <<>>]]]}

JoinWebhooks == [Type : {"feishu"}, Settings : JoinSettings]

JoinBys == {NilBy, [nil |-> FALSE, FollowPreference |-> TRUE, Critical |-> <<"sms", "email">>]}

JoinLayers ==
    {NilTargetLayer} \cup
    [HasTarget : {TRUE},
     PersonIDs : SeqsUpTo(JoinIDs, MaxJoinList),
     TeamIDs : SeqsUpTo(JoinIDs, MaxJoinList),
     ScheduleToRoleIDs : UNION {[K -> {<<1>>}] : K \in SUBSET JoinIDs},
     By : JoinBys,
     Webhooks : SeqsUpTo(JoinWebhooks, MaxJoinList)]

JoinIncidents ==
    [IncidentID : {"i1"}, ChannelID : {1}, CreatorID : {1}, CloserID : {0},
     Responders : SeqsUpTo([PersonID : JoinIDs], MaxJoinList)]

JoinInputs == [kind : {"incident"}, raw : JoinIncidents] \cup [kind : {"layer"}, raw : JoinLayers]

\* the lookups resolved nothing, or resolved identifier 1 of every kind
JoinMappings == {[k \in Kinds |-> BuildMap(k, K)] : K \in {{}, {1}}}

NoJoin == [kind |-> "none", raw |-> <<>>]

JoinInit ==
    /\ joinInput \in JoinInputs
    /\ joinMaps \in JoinMappings
    /\ joinOut = <<>>

JoinIdle ==
    /\ joinInput = NoJoin
    /\ joinMaps = <<>>
    /\ joinOut = <<>>

\* one execution of the loop body of enrichIncidents on the raw incident
BuildIncident ==
    /\ joinInput.kind = "incident"
    /\ Len(joinOut) < MaxJoinRuns
    /\ joinOut' = Append(joinOut,
                         EnrichIncident(joinInput.raw, joinMaps["person"], joinMaps["channel"]))
    /\ UNCHANGED <<joinInput, joinMaps, joinFrame>>

\* one execution of the layer loop body of query_escalation_rules
BuildLayer ==
    /\ joinInput.kind = "layer"
    /\ Len(joinOut) < MaxJoinRuns
    /\ \E e \in EnrichLayer(0, joinInput.raw, joinMaps) : joinOut' = Append(joinOut, e)
    /\ UNCHANGED <<joinInput, joinMaps, joinFrame>>

(***************************************************************************)
(* The timeline collector on its own: collectTimelinePersonIDs applied to  *)
(* a timeline whose last item has any type, operator and payload           *)
(***************************************************************************)
\* the items that can precede the last item: none, or an i_notify item that
\* carries identifiers in both person-bearing fields
PrecedingItems ==
    {<<>>,
     <<[Type |-> "i_notify", PersonID |-> MaxDetailID,
        Detail |-> [nil |-> FALSE,
                    m |-> [to |-> [t |-> "list", l |-> <<[t |-> "float64", n |-> 1]>>],
                           person_ids |-> [t |-> "list", l |-> <<[t |-> "float64", n |-> 1]>>]]]]>>}

\* the last item: its operator is unset or set
LastItems == [Type : TransformTypes, PersonID : {0, MaxDetailID}, Detail : TransformDetails]

NotCollected == [done |-> FALSE, ids |-> <<>>]

NotEnriched == [done |-> FALSE, out |-> <<>>]

CollectInit ==
    /\ timeline \in {pre \o <<item>> : pre \in PrecedingItems, item \in LastItems}
    /\ collected = NotCollected
    /\ timelinePersons = EmptyMap
    /\ events = NotEnriched

CollectIdle ==
    /\ timeline = <<>>
    /\ collected = NotCollected
    /\ timelinePersons = EmptyMap
    /\ events = NotEnriched

CollectTimeline ==
    /\ timeline # <<>>
    /\ collected = NotCollected
    /\ collected' = [done |-> TRUE, ids |-> collectTimelinePersonIDs(timeline)]
    /\ UNCHANGED <<timeline, timelinePersons, events, collectFrame>>

\* the lookup of the collected identifiers returns any of the persons asked
\* for, and enrichTimelineItems builds the events from that mapping
EnrichTimeline ==
    /\ collected.done
    /\ ~events.done
    /\ \E returned \in SUBSET UniqueIDs(collected.ids) :
          /\ timelinePersons' = BuildMap("person", returned)
          /\ events' = [done |-> TRUE, out |-> enrichTimelineItems(timeline, timelinePersons')]
    /\ UNCHANGED <<timeline, collected, collectFrame>>

(***************************************************************************)
(* Per-incident fan-out: one task per requested incident, each writing its *)
(* own result slot; query_incident_timeline then looks the persons up      *)
(***************************************************************************)
\* largest number of incidents in one call
MaxIncidents == 2

IncTools == {"query_incidents", "query_incident_alerts", "query_incident_timeline"}

\* what the remote API holds for an incident: its timeline and its alerts
RemoteTimeline(id) ==
    IF id = "i1"
    THEN <<[Type |-> "i_notify", PersonID |-> 1,
            Detail |-> [nil |-> FALSE,
                        m |-> [to |-> [t |-> "list", l |-> <<[t |-> "float64", n |-> 2]>>]]]]>>
    ELSE <<[Type |-> "i_ack", PersonID |-> 0, Detail |-> NilDetail]>>

RemoteAlerts(id) == <<[AlertID |-> <<"alert", id>>]>>

\* what fetchIncidentTimeline or fetchIncidentAlerts returns on success
Fetched(tool, id) ==
    IF tool = "query_incident_timeline" THEN RemoteTimeline(id) ELSE RemoteAlerts(id)

\* results := make([]..., len(incidentIDs)); query_incidents writes into the
\* enriched incidents, which already carry their identifier
EmptySlot(tool, id) ==
    [IncidentID |-> IF tool = "query_incidents" THEN id ELSE "", Items |-> <<>>]

\* faulty variant: every closure sees the last value of the loop variable
SlotOfLast(i) == Len(incidentIDs)

\* i := i: the closure of position i writes slot i
SlotOf(i) == i

Positions == 1..Len(incidentIDs)

NoToolResult == [status |-> "pending", text |-> "", out |-> <<>>]

IncInit ==
    /\ incTool \in IncTools
    /\ incidentIDs \in NonEmptySeqsUpTo(IncidentIDs, MaxIncidents)
    /\ incPc = "fanout"
    /\ fetchTask = [i \in Positions |-> "running"]
    /\ fetchErr = [i \in Positions |-> NilErr]
    /\ results = [i \in Positions |-> EmptySlot(incTool, incidentIDs[i])]
    /\ slotWriters = [i \in Positions |-> {}]
    /\ waitErr = NilErr
    /\ incCtxDone = FALSE
    /\ incGctxDone = FALSE
    /\ personLookups = <<>>
    /\ lookupErr = NilErr
    /\ toolResult = NoToolResult

IncIdle ==
    /\ incTool = "none"
    /\ incidentIDs = <<>>
    /\ incPc = "idle"
    /\ fetchTask = <<>>
    /\ fetchErr = <<>>
    /\ results = <<>>
    /\ slotWriters = <<>>
    /\ waitErr = NilErr
    /\ incCtxDone = FALSE
    /\ incGctxDone = FALSE
    /\ personLookups = <<>>
    /\ lookupErr = NilErr
    /\ toolResult = NoToolResult

\* the caller cancels its context during the call
IncCancel ==
    /\ incPc # "done"
    /\ ~incCtxDone
    /\ incCtxDone' = TRUE
    /\ incGctxDone' = TRUE
    /\ UNCHANGED <<incTool, incidentIDs, incPc, fetchTask, fetchErr, results, slotWriters,
                   waitErr, personLookups, lookupErr, toolResult, incFrame>>

\* the task returns err to the errgroup: the first error is kept and
\* cancels the derived context
TaskFails(i, err) ==
    /\ fetchTask' = [fetchTask EXCEPT ![i] = "done"]
    /\ fetchErr' = [fetchErr EXCEPT ![i] = err]
    /\ IF waitErr = NilErr
       THEN waitErr' = err /\ incGctxDone' = TRUE
       ELSE UNCHANGED <<waitErr, incGctxDone>>
    /\ UNCHANGED <<incTool, incidentIDs, incPc, results, slotWriters, incCtxDone,
                   personLookups, lookupErr, toolResult, incFrame>>

\* the fetch of position i succeeds and the task writes its slot
FetchOK(i) ==
    /\ incPc = "fanout"
    /\ fetchTask[i] = "running"
    /\ ~incGctxDone
    /\ fetchTask' = [fetchTask EXCEPT ![i] = "done"]
    /\ results' = [results EXCEPT ![SlotOf(i)] =
                      [IncidentID |-> incidentIDs[i], Items |-> Fetched(incTool, incidentIDs[i])]]
    /\ slotWriters' = [slotWriters EXCEPT ![SlotOf(i)] = @ \cup {i}]
    /\ UNCHANGED <<incTool, incidentIDs, incPc, fetchErr, waitErr, incCtxDone, incGctxDone,
                   personLookups, lookupErr, toolResult, incFrame>>

\* the fetch of position i fails in the transport or the API
FetchFail(i) ==
    /\ incPc = "fanout"
    /\ fetchTask[i] = "running"
    /\ ~incGctxDone
    /\ TaskFails(i, ApiErr("incident"))

\* the fetch of position i observes the cancellation of its context
FetchAbort(i) ==
    /\ incPc = "fanout"
    /\ fetchTask[i] = "running"
    /\ incGctxDone
    /\ TaskFails(i, CancelErr("incident"))

ToolError(text) == [status |-> "error", text |-> text, out |-> <<>>]

\* the response lists the result slots in slot order
Response(rs, pm) ==
    [status |-> "ok", text |-> "",
     out |-> [i \in 1..Len(rs) |->
                [IncidentID |-> rs[i].IncidentID,
                 Items |-> IF incTool = "query_incident_timeline"
                           THEN enrichTimelineItems(rs[i].Items, pm)
                           ELSE rs[i].Items]]]

\* g.Wait() returns once every task has returned and cancels the derived
\* context; an error ends the call, otherwise the alert tools answer and
\* query_incident_timeline goes on to the person lookup
IncWait ==
    /\ incPc = "fanout"
    /\ \A i \in Positions : fetchTask[i] = "done"
    /\ incGctxDone' = TRUE
    /\ IF waitErr # NilErr
       THEN /\ incPc' = "done"
            /\ toolResult' = ToolError(IF incTool = "query_incident_timeline"
                                       THEN "Unable to retrieve timeline"
                                       ELSE "Unable to retrieve alerts")
       ELSE IF incTool = "query_incident_timeline"
       THEN incPc' = "lookup" /\ UNCHANGED toolResult
       ELSE incPc' = "done" /\ toolResult' = Response(results, EmptyMap)
    /\ UNCHANGED <<incTool, incidentIDs, fetchTask, fetchErr, results, slotWriters, waitErr,
                   incCtxDone, personLookups, lookupErr, incFrame>>

\* allPersonIDs: the identifiers of every timeline, in slot order
AllPersonIDs(rs) == Flatten([i \in 1..Len(rs) |-> collectTimelinePersonIDs(rs[i].Items)])

\* faulty variant: the person lookup runs on the errgroup's context
LookupCtxDoneDerived == incGctxDone

\* fetchPersonInfos(ctx, allPersonIDs) is given the caller's context
LookupCtxDone == incCtxDone

\* the person lookup and the rest of the handler
LookupPersons ==
    /\ incPc = "lookup"
    /\ incPc' = "done"
    /\ personLookups' = Append(personLookups, AllPersonIDs(results))
    /\ IF ShortCircuit(AllPersonIDs(results))
       THEN lookupErr' = NilErr /\ toolResult' = Response(results, EmptyMap)
       ELSE IF LookupCtxDone
       THEN /\ lookupErr' = CancelErr("person")
            /\ toolResult' = ToolError("Unable to load person details")
       ELSE \/ /\ lookupErr' = ApiErr("person")
               /\ toolResult' = ToolError("Unable to load person details")
            \/ \E returned \in SUBSET UniqueIDs(AllPersonIDs(results)) :
                  /\ lookupErr' = NilErr
                  /\ toolResult' = Response(results, BuildMap("person", returned))
    /\ UNCHANGED <<incTool, incidentIDs, fetchTask, fetchErr, results, slotWriters, waitErr,
                   incCtxDone, incGctxDone, incFrame>>

(***************************************************************************)
(* Client cache: getClient called by concurrent requests                   *)
(***************************************************************************)
\* number of concurrent requests
MaxRequests == 2

Requests == 1..MaxRequests

QueryAppKeys == {"", "key1", "key2"}

QueryBaseURLs == {"", "https://a.example", "https://b.example"}

\* the server's default base URL
DefaultBaseURL == "https://api.flashcat.cloud"

\* httpContextFunc: the configuration stored in the request's context
ConfigOf(q) ==
    [APPKey |-> q.app_key,
     BaseURL |-> IF q.base_url = "" THEN DefaultBaseURL ELSE q.base_url]

\* NewClient: a new Client; id tells the instances apart
NewClient(id, cfgAppKey, cfgBaseURL) ==
    [id |-> id, appKey |-> cfgAppKey,
     baseURL |-> IF cfgBaseURL = "" THEN "https://api.flashcat.cloud" ELSE cfgBaseURL]

NoClient == [id |-> 0, appKey |-> "", baseURL |-> ""]

NotReturned == [status |-> "pending", client |-> NoClient]

ClientInit ==
    /\ reqQuery \in [Requests -> [app_key : QueryAppKeys, base_url : QueryBaseURLs]]
    /\ getPc = [r \in Requests |-> "load"]
    /\ clientCache = EmptyMap
    /\ constructed = <<>>
    /\ gotClient = [r \in Requests |-> NotReturned]

ClientIdle ==
    /\ reqQuery = <<>>
    /\ getPc = <<>>
    /\ clientCache = EmptyMap
    /\ constructed = <<>>
    /\ gotClient = <<>>

\* getClient up to clientCache.Load: the empty key is refused, a cached
\* client is returned, otherwise the call goes on to construct one
LoadClient(r) ==
    LET cfg == ConfigOf(reqQuery[r])
    IN /\ getPc[r] = "load"
       /\ IF cfg.APPKey = ""
          THEN /\ getPc' = [getPc EXCEPT ![r] = "done"]
               /\ gotClient' = [gotClient EXCEPT ![r] = [status |-> "error", client |-> NoClient]]
          ELSE IF cfg.APPKey \in DOMAIN clientCache
          THEN /\ getPc' = [getPc EXCEPT ![r] = "done"]
               /\ gotClient' = [gotClient EXCEPT
                                  ![r] = [status |-> "ok", client |-> clientCache[cfg.APPKey]]]
          ELSE /\ getPc' = [getPc EXCEPT ![r] = "create"]
               /\ UNCHANGED gotClient
       /\ UNCHANGED <<reqQuery, clientCache, constructed, clientFrame>>

\* NewClient, clientCache.Store and the return
StoreClient(r) ==
    LET cfg == ConfigOf(reqQuery[r])
        client == NewClient(Len(constructed) + 1, cfg.APPKey, cfg.BaseURL)
    IN /\ getPc[r] = "create"
       /\ getPc' = [getPc EXCEPT ![r] = "done"]
       /\ constructed' = Append(constructed, client)
       /\ clientCache' = (cfg.APPKey :> client) @@ clientCache
       /\ gotClient' = [gotClient EXCEPT ![r] = [status |-> "ok", client |-> client]]
       /\ UNCHANGED <<reqQuery, clientFrame>>

(***************************************************************************)
(* update_incident: a sequence of field updates                            *)
(***************************************************************************)
\* custom field names: the empty name, two accepted names and one with a
\* character outside the accepted ranges
FieldNames == {<<>>, <<"a">>, <<"7", "_">>, <<"a", "-">>}

\* the rune test of the field name loop
IsValidNameChar(c) ==
    \/ c \in {"a", "b", "c", "x", "y", "z"}
    \/ c \in {"A", "B", "C", "X", "Y", "Z"}
    \/ c \in {"0", "1", "7", "8", "9"}
    \/ c = "_"

IsValidName(fieldName) ==
    /\ fieldName # <<>>
    /\ \A i \in DOMAIN fieldName : IsValidNameChar(fieldName[i])

\* custom_fields as the handler sees it: absent (""), only white space,
\* text that is no JSON object, or an object with a set of field names
CustomFieldsInputs ==
    {[kind |-> k, names |-> {}] : k \in {"absent", "blank", "malformed"}}
        \cup {[kind |-> "object", names |-> ns] : ns \in SUBSET FieldNames}

UpdateArgs ==
    [incident_id : {"", "inc1"}, title : {"", "new title"},
     description : {"", "new description"}, severity : {"", "Critical"},
     custom_fields : CustomFieldsInputs]

StandardFields == <<"title", "description", "severity">>

NoUpdateResult == [isError |-> FALSE, text |-> "pending"]

UpdateError(text) == [isError |-> TRUE, text |-> text]

UpdInit ==
    /\ updArgs \in UpdateArgs
    /\ updPc = "start"
    /\ pendingFields = {}
    /\ applied = <<>>
    /\ updatedFields = <<>>
    /\ updResult = NoUpdateResult

UpdIdle ==
    /\ updArgs = <<>>
    /\ updPc = "idle"
    /\ pendingFields = {}
    /\ applied = <<>>
    /\ updatedFields = <<>>
    /\ updResult = NoUpdateResult

\* RequiredParam of incident_id
RequireIncidentID ==
    /\ updPc = "start"
    /\ IF updArgs.incident_id = ""
       THEN /\ updPc' = "done"
            /\ updResult' = UpdateError("missing required parameter: incident_id")
       ELSE /\ updPc' = "title"
            /\ UNCHANGED updResult
    /\ UNCHANGED <<updArgs, pendingFields, applied, updatedFields, updFrame>>

NextPc(i) == IF i < Len(StandardFields) THEN StandardFields[i + 1] ELSE "custom"

\* the update of title, description or severity: skipped when the argument
\* is empty, otherwise one request that the remote API applies or refuses
UpdateStandardField(i) ==
    LET field == StandardFields[i]
    IN /\ updPc = field
       /\ IF updArgs[field] = ""
          THEN /\ updPc' = NextPc(i)
               /\ UNCHANGED <<applied, updatedFields, updResult>>
          ELSE \E ok \in BOOLEAN :
                  IF ok
                  THEN /\ applied' = Append(applied, <<field>>)
                       /\ updatedFields' = Append(updatedFields, <<field>>)
                       /\ updPc' = NextPc(i)
                       /\ UNCHANGED updResult
                  ELSE /\ updResult' = UpdateError("Unable to update " \o field)
                       /\ updPc' = "done"
                       /\ UNCHANGED <<applied, updatedFields>>
       /\ UNCHANGED <<updArgs, pendingFields, updFrame>>

\* the checks of custom_fields, made after the three updates above
CheckCustomFields ==
    LET cf == updArgs.custom_fields
    IN /\ updPc = "custom"
       /\ IF cf.kind = "absent"
          THEN /\ updPc' = "return"
               /\ UNCHANGED <<pendingFields, updResult>>
          ELSE IF cf.kind = "blank"
          THEN /\ updPc' = "done"
               /\ updResult' = UpdateError("custom_fields must be a valid JSON object, not empty")
               /\ UNCHANGED pendingFields
          ELSE IF cf.kind = "malformed"
          THEN /\ updPc' = "done"
               /\ updResult' = UpdateError("custom_fields must be a valid JSON object")
               /\ UNCHANGED pendingFields
          ELSE IF cf.names = {}
          THEN /\ updPc' = "done"
               /\ updResult' = UpdateError("custom_fields must contain at least one field")
               /\ UNCHANGED pendingFields
          ELSE IF \E n \in cf.names : ~IsValidName(n)
          THEN /\ updPc' = "done"
               /\ updResult' = UpdateError("custom_fields has an invalid field name")
               /\ UNCHANGED pendingFields
          ELSE /\ updPc' = "fields"
               /\ pendingFields' = cf.names
               /\ UNCHANGED updResult
       /\ UNCHANGED <<updArgs, applied, updatedFields, updFrame>>

\* one iteration of the range over customFields, in any order
UpdateCustomField ==
    /\ updPc = "fields"
    /\ \E n \in pendingFields : \E ok \in BOOLEAN :
          IF ok
          THEN /\ applied' = Append(applied, n)
               /\ updatedFields' = Append(updatedFields, n)
               /\ pendingFields' = pendingFields \ {n}
               /\ updPc' = IF pendingFields = {n} THEN "return" ELSE "fields"
               /\ UNCHANGED updResult
          ELSE /\ updResult' = UpdateError("Unable to update custom field")
               /\ updPc' = "done"
               /\ UNCHANGED <<applied, updatedFields, pendingFields>>
    /\ UNCHANGED <<updArgs, updFrame>>

\* the end of the handler
ReturnUpdateResult ==
    /\ updPc = "return"
    /\ updPc' = "done"
    /\ updResult' = IF Len(updatedFields) = 0
                    THEN UpdateError("No fields specified to update")
                    ELSE [isError |-> FALSE, text |-> "success"]
    /\ UNCHANGED <<updArgs, pendingFields, applied, updatedFields, updFrame>>

(***************************************************************************)
(* enrichIncidents and enrichChannels from call to return, on lists of     *)
(* several records                                                         *)
(***************************************************************************)
\* longest list of raw records
MaxShapeRecs == 2

ShapeSites == {"enrichIncidents", "enrichChannels"}

ShapeInit ==
    /\ shapeSite \in ShapeSites
    /\ shapeItems \in SeqsUpTo(IF shapeSite = "enrichIncidents" THEN RawIncidentSet
                                 ELSE RawChannelSet, MaxShapeRecs)
    /\ shapeMaps = [k \in Kinds |-> EmptyMap]
    /\ shapeRet = Pending

ShapeIdle ==
    /\ shapeSite = "none"
    /\ shapeItems = <<>>
    /\ shapeMaps = [k \in Kinds |-> EmptyMap]
    /\ shapeRet = Pending

\* what the lookup of one kind leaves in its mapping variable: the records
\* the API returned, or nothing after a failure
LookupOutcomes(k) ==
    [failed : {FALSE}, m : {BuildMap(k, K) : K \in SUBSET (IDs \ {0})}]
        \cup {[failed |-> TRUE, m |-> EmptyMap]}

\* the whole call: early return, the lookups with any outcome, the error
\* policy of the site, the join loop
EnrichRecords ==
    LET in == [channelID |-> 0, items |-> shapeItems]
    IN /\ shapeRet = Pending
       /\ IF ReturnsBeforeFanOut(shapeSite, in)
          THEN /\ shapeRet' = [status |-> "ok", err |-> NilErr, out |-> shapeItems]
               /\ UNCHANGED shapeMaps
          ELSE \E o \in [SiteKinds(shapeSite) -> UNION {LookupOutcomes(k) : k \in Kinds}] :
                  /\ \A k \in SiteKinds(shapeSite) : o[k] \in LookupOutcomes(k)
                  /\ shapeMaps' = [k \in Kinds |->
                                     IF k \in SiteKinds(shapeSite) THEN o[k].m ELSE EmptyMap]
                  /\ IF HardFail(shapeSite) /\ \E k \in SiteKinds(shapeSite) : o[k].failed
                     THEN \E k \in {k \in SiteKinds(shapeSite) : o[k].failed} :
                             shapeRet' = [status |-> "error", err |-> ApiErr(k), out |-> <<>>]
                     ELSE \E out \in EnrichOutputs(shapeSite, in, shapeMaps') :
                             shapeRet' = [status |-> "ok", err |-> NilErr, out |-> out]
       /\ UNCHANGED <<shapeSite, shapeItems, shapeFrame>>

Init == FanInit /\ DetailIdle /\ HttpIdle /\ MaskIdle /\ TraceIdle /\ TruncIdle /\ StatusIdle /\ JoinIdle /\ CollectIdle /\ IncIdle /\ ClientIdle /\ UpdIdle /\ ShapeIdle

Next == FanNext

Spec == Init /\ [][Next]_vars

\* every goroutine started with g.Go runs, every request handed to the
\* transport ends (with an answer, a failure or the cancellation of its
\* context), and the caller blocked in g.Wait() runs once it can
Fairness ==
    /\ WF_vars(Collect)
    /\ \A k \in Kinds : WF_vars(StartLookup(k))
    /\ \A k \in Kinds : WF_vars(RespondOK(k) \/ RespondFail(k) \/ Abort(k))
    /\ WF_vars(WaitAndJoin)

SpecFair == Init /\ [][Next]_vars /\ Fairness

InitDetail == DetailInit /\ FanIdle /\ HttpIdle /\ MaskIdle /\ TraceIdle /\ TruncIdle /\ StatusIdle /\ JoinIdle /\ CollectIdle /\ IncIdle /\ ClientIdle /\ UpdIdle /\ ShapeIdle

NextDetail == Transform

SpecDetail == InitDetail /\ [][NextDetail]_vars

InitServer == HttpInit /\ FanIdle /\ DetailIdle /\ MaskIdle /\ TraceIdle /\ TruncIdle /\ StatusIdle /\ JoinIdle /\ CollectIdle /\ IncIdle /\ ClientIdle /\ UpdIdle /\ ShapeIdle

NextServer ==
    \/ HTTPContext
    \/ ListTools
    \/ \E t \in AllTools : CallTool(t)

SpecServer == InitServer /\ [][NextServer]_vars

InitMask == MaskInit /\ FanIdle /\ DetailIdle /\ HttpIdle /\ TraceIdle /\ TruncIdle /\ StatusIdle /\ JoinIdle /\ CollectIdle /\ IncIdle /\ ClientIdle /\ UpdIdle /\ ShapeIdle

NextMask ==
    \/ LogRequest
    \/ DoSucceeds
    \/ DoFails

SpecMask == InitMask /\ [][NextMask]_vars

InitTrace == TraceInit /\ FanIdle /\ DetailIdle /\ HttpIdle /\ MaskIdle /\ TruncIdle /\ StatusIdle /\ JoinIdle /\ CollectIdle /\ IncIdle /\ ClientIdle /\ UpdIdle /\ ShapeIdle

NextTrace ==
    \/ Parse
    \/ Format
    \/ Reparse
    \/ Resolve

SpecTrace == InitTrace /\ [][NextTrace]_vars

InitTrunc == TruncInit /\ FanIdle /\ DetailIdle /\ HttpIdle /\ MaskIdle /\ TraceIdle /\ StatusIdle /\ JoinIdle /\ CollectIdle /\ IncIdle /\ ClientIdle /\ UpdIdle /\ ShapeIdle

NextTrunc == Truncate

SpecTrunc == InitTrunc /\ [][NextTrunc]_vars

InitStatus == StatusInit /\ FanIdle /\ DetailIdle /\ HttpIdle /\ MaskIdle /\ TraceIdle /\ TruncIdle /\ JoinIdle /\ CollectIdle /\ IncIdle /\ ClientIdle /\ UpdIdle /\ ShapeIdle

NextStatus ==
    \/ CreateStatusIncident
    \/ \E outcome \in {"transport", "api", "ok"} : StatusResponse(outcome)

SpecStatus == InitStatus /\ [][NextStatus]_vars

InitJoin == JoinInit /\ FanIdle /\ DetailIdle /\ HttpIdle /\ MaskIdle /\ TraceIdle /\ TruncIdle /\ StatusIdle /\ CollectIdle /\ IncIdle /\ ClientIdle /\ UpdIdle /\ ShapeIdle

NextJoin ==
    \/ BuildIncident
    \/ BuildLayer

SpecJoin == InitJoin /\ [][NextJoin]_vars

InitCollect == CollectInit /\ FanIdle /\ DetailIdle /\ HttpIdle /\ MaskIdle /\ TraceIdle /\ TruncIdle /\ StatusIdle /\ JoinIdle /\ IncIdle /\ ClientIdle /\ UpdIdle /\ ShapeIdle

NextCollect ==
    \/ CollectTimeline
    \/ EnrichTimeline

SpecCollect == InitCollect /\ [][NextCollect]_vars

InitIncidents == IncInit /\ FanIdle /\ DetailIdle /\ HttpIdle /\ MaskIdle /\ TraceIdle /\ TruncIdle /\ StatusIdle /\ JoinIdle /\ CollectIdle /\ ClientIdle /\ UpdIdle /\ ShapeIdle

NextIncidents ==
    \/ IncCancel
    \/ \E i \in Positions : FetchOK(i)
    \/ \E i \in Positions : FetchFail(i)
    \/ \E i \in Positions : FetchAbort(i)
    \/ IncWait
    \/ LookupPersons

SpecIncidents == InitIncidents /\ [][NextIncidents]_vars

InitClients == ClientInit /\ FanIdle /\ DetailIdle /\ HttpIdle /\ MaskIdle /\ TraceIdle /\ TruncIdle /\ StatusIdle /\ JoinIdle /\ CollectIdle /\ IncIdle /\ UpdIdle /\ ShapeIdle

NextClients ==
    \/ \E r \in Requests : LoadClient(r)
    \/ \E r \in Requests : StoreClient(r)

SpecClients == InitClients /\ [][NextClients]_vars

InitUpdate == UpdInit /\ FanIdle /\ DetailIdle /\ HttpIdle /\ MaskIdle /\ TraceIdle /\ TruncIdle /\ StatusIdle /\ JoinIdle /\ CollectIdle /\ IncIdle /\ ClientIdle /\ ShapeIdle

NextUpdate ==
    \/ RequireIncidentID
    \/ \E i \in DOMAIN StandardFields : UpdateStandardField(i)
    \/ CheckCustomFields
    \/ UpdateCustomField
    \/ ReturnUpdateResult

SpecUpdate == InitUpdate /\ [][NextUpdate]_vars

InitShape == ShapeInit /\ FanIdle /\ DetailIdle /\ HttpIdle /\ MaskIdle /\ TraceIdle /\ TruncIdle /\ StatusIdle /\ JoinIdle /\ CollectIdle /\ IncIdle /\ ClientIdle /\ UpdIdle

NextShape == EnrichRecords

SpecShape == InitShape /\ [][NextShape]_vars

(***************************************************************************)
(* Properties of the enrichment engine                                     *)
(***************************************************************************)
Returned == pc = "done"

ReturnedOK == pc = "done" /\ ret.status = "ok"

\* some lookup of the call has an identifier to resolve
NeedsLookup == \E k \in SiteKinds(site) : \E i \in DOMAIN ids[k] : ids[k][i] # 0

\* C1: if the caller's context is cancelled before any lookup of the call
\* has completed (and some lookup has an identifier to resolve), the call
\* returns a cancellation error, at every call site, also the gracefully
\* degrading ones.
C1_CancellationNeverSwallowed ==
    (Returned /\ ctxDone /\ doneAtCancel = {} /\ NeedsLookup)
        => (ret.status = "error" /\ ret.err.cause = "canceled")

\* the person and channel references of the enriched records of a call site
RECURSIVE UnionOf(_)
UnionOf(sets) == IF sets = <<>> THEN {} ELSE Head(sets) \cup UnionOf(Tail(sets))

PersonRefs(s, out) ==
    CASE s = "enrichIncidents" ->
           UnionOf([i \in 1..Len(out) |->
               {[id |-> out[i].CreatorID, name |-> out[i].CreatorName],
                [id |-> out[i].CloserID, name |-> out[i].CloserName]} \cup
               {[id |-> out[i].Responders[j].PersonID, name |-> out[i].Responders[j].PersonName] :
                    j \in 1..Len(out[i].Responders)}])
      [] s = "QueryEscalationRules" ->
           UnionOf([i \in 1..Len(out) |->
               UnionOf([l \in 1..Len(out[i].Layers) |->
                   {[id |-> out[i].Layers[l].Persons[j].PersonID,
                     name |-> out[i].Layers[l].Persons[j].PersonName] :
                        j \in 1..Len(out[i].Layers[l].Persons)}])])
      [] s \in {"QueryChanges", "enrichChannels"} ->
           {[id |-> out[i].CreatorID, name |-> out[i].CreatorName] : i \in 1..Len(out)}

ChannelRefs(s, out) == {[id |-> out[i].ChannelID, name |-> out[i].ChannelName] : i \in 1..Len(out)}

\* the channel lookup failed on its own and the person lookup succeeded
ChannelFailedPersonOK ==
    /\ Returned
    /\ taskErr["channel"].cause = "api"
    /\ task["person"] = "done"
    /\ taskErr["person"] = NilErr

\* a result with no error, resolved person names filled in, channel names blank
DegradedResult ==
    /\ ret.status = "ok"
    /\ \A r \in PersonRefs(site, ret.out) :
          r.id \in DOMAIN maps["person"] => r.name = PersonInfo(r.id).PersonName
    /\ \A r \in ChannelRefs(site, ret.out) : r.name = NoName

\* C2 as stated: at every call site that resolves a channel set and a
\* person set (enrichIncidents, escalation rules, changes), a failed channel
\* lookup with a successful person lookup still yields a result with no
\* error, person names populated and channel names blank.
C2_ChannelFailureDegradesEverywhere ==
    (site \in {"enrichIncidents", "QueryEscalationRules", "QueryChanges"} /\ ChannelFailedPersonOK)
        => DegradedResult

\* C2 amended: that holds at the gracefully degrading call sites (escalation
\* rules, changes); enrichIncidents returns the channel lookup's error and
\* no record.
C2_ChannelFailureDegrades ==
    /\ (site \in {"QueryEscalationRules", "QueryChanges"} /\ ChannelFailedPersonOK)
          => DegradedResult
    /\ (site = "enrichIncidents" /\ ChannelFailedPersonOK)
          => (ret.status = "error" /\ ret.err = ApiErr("channel") /\ ret.out = <<>>)

C2_Witness ==
    /\ site = "QueryEscalationRules"
    /\ ChannelFailedPersonOK
    /\ \E r \in PersonRefs(site, ret.out) : r.name # NoName
    /\ \E r \in ChannelRefs(site, ret.out) : r.id # 0

\* what query_incidents does with the result of enrichIncidents
QueryIncidentsResult(r) == IF r.status = "error" THEN "tool_error" ELSE "continue"

\* C3: in enrichIncidents a failure of the person lookup or of the channel
\* lookup aborts the join: the call returns the error of a failed lookup and
\* no enriched record, and query_incidents reports an error result.
C3_IncidentLookupFailureAborts ==
    (Returned /\ site = "enrichIncidents" /\ \E k \in {"person", "channel"} : taskErr[k] # NilErr)
        => /\ ret.status = "error"
           /\ ret.out = <<>>
           /\ ret.err \in {taskErr["person"], taskErr["channel"]} \ {NilErr}
           /\ QueryIncidentsResult(ret) = "tool_error"

C3_Witness ==
    /\ Returned
    /\ site = "enrichIncidents"
    /\ taskErr["channel"] = ApiErr("channel")
    /\ taskErr["person"] = NilErr
    /\ task["person"] = "done"
    /\ DOMAIN maps["person"] # {}
    /\ ret.status = "error"

\* the display value the join owes for foreign key id: the mapping entry's
\* field when id is resolved, empty otherwise
Display(m, id, field) == IF id \in DOMAIN m THEN m[id][field] ELSE NoName

PassThroughIncident(r, e, pm, cm) ==
    /\ e.CreatorID = r.CreatorID
    /\ e.CreatorName = Display(pm, r.CreatorID, "PersonName")
    /\ e.CreatorEmail = Display(pm, r.CreatorID, "Email")
    /\ e.CloserID = r.CloserID
    /\ e.CloserName = Display(pm, r.CloserID, "PersonName")
    /\ e.ChannelID = r.ChannelID
    /\ e.ChannelName = Display(cm, r.ChannelID, "ChannelName")
    /\ Len(e.Responders) = Len(r.Responders)
    /\ \A j \in 1..Len(r.Responders) :
          /\ e.Responders[j].PersonID = r.Responders[j].PersonID
          /\ e.Responders[j].PersonName = Display(pm, r.Responders[j].PersonID, "PersonName")
          /\ e.Responders[j].Email = Display(pm, r.Responders[j].PersonID, "Email")

PassThroughChannel(r, e, tm, pm) ==
    /\ e.ChannelID = r.ChannelID
    /\ e.TeamID = r.TeamID
    /\ e.TeamName = Display(tm, r.TeamID, "TeamName")
    /\ e.CreatorID = r.CreatorID
    /\ e.CreatorName = Display(pm, r.CreatorID, "PersonName")

PassThroughLayer(l, e, pm, tm) ==
    /\ Len(e.Persons) = Len(l.PersonIDs)
    /\ \A j \in 1..Len(l.PersonIDs) :
          /\ e.Persons[j].PersonID = l.PersonIDs[j]
          /\ e.Persons[j].PersonName = Display(pm, l.PersonIDs[j], "PersonName")
          /\ e.Persons[j].Email = Display(pm, l.PersonIDs[j], "Email")
    /\ Len(e.Teams) = Len(l.TeamIDs)
    /\ \A j \in 1..Len(l.TeamIDs) :
          /\ e.Teams[j].TeamID = l.TeamIDs[j]
          /\ e.Teams[j].TeamName = Display(tm, l.TeamIDs[j], "TeamName")

\* C4: every foreign key of a raw record (incident creator, closer, channel,
\* responders; channel team and creator; escalation-layer person and team
\* targets) keeps its identifier in the enriched record; its display fields
\* are empty when the identifier is absent from the resolved mapping and
\* equal the mapping entry's fields when it is present.
C4_UnresolvedPassThrough ==
    ReturnedOK =>
        /\ Len(ret.out) = Len(input.items)
        /\ \A i \in 1..Len(input.items) :
              LET r == input.items[i]
                  e == ret.out[i]
              IN CASE site = "enrichIncidents" ->
                        PassThroughIncident(r, e, maps["person"], maps["channel"])
                   [] site = "enrichChannels" ->
                        PassThroughChannel(r, e, maps["team"], maps["person"])
                   [] site = "QueryEscalationRules" ->
                        /\ Len(e.Layers) = Len(r.Layers)
                        /\ \A l \in 1..Len(r.Layers) :
                              PassThroughLayer(r.Layers[l], e.Layers[l], maps["person"], maps["team"])
                   [] OTHER -> TRUE

\* an incident whose creator is unresolved while its channel is resolved
C4_Witness ==
    /\ ReturnedOK
    /\ site = "enrichIncidents"
    /\ \E i \in 1..Len(input.items) :
          /\ input.items[i].CreatorID # 0
          /\ input.items[i].CreatorID \notin DOMAIN maps["person"]
          /\ ret.out[i].CreatorID = input.items[i].CreatorID
          /\ input.items[i].ChannelID \in DOMAIN maps["channel"]

\* the list is empty or holds only zero identifiers
OnlyZeros(list) == \A i \in DOMAIN list : list[i] = 0

\* C5: a batch resolver called with an empty identifier list, or with a list
\* of zero identifiers only, sends no request and returns an empty mapping
\* with no error.
C5_EmptyInputShortCircuit ==
    \A k \in Kinds :
        (task[k] # "absent" /\ OnlyZeros(ids[k]))
            => /\ requests[k] = <<>>
               /\ task[k] # "inflight"
               /\ task[k] = "done" => (maps[k] = EmptyMap /\ taskErr[k] = NilErr)

\* a resolver has returned for the list [0], and another for the empty list
C5_Witness ==
    /\ \E k \in Kinds : task[k] = "done" /\ ids[k] = <<0>>
    /\ \E k \in Kinds : task[k] = "done" /\ ids[k] = <<>>

NoDuplicates(list) == \A i, j \in DOMAIN list : list[i] = list[j] => i = j

\* the lists gathered from the raw records (query_escalation_rules' channel
\* list is the channel_id argument itself)
CollectedKinds(s) == IF s = "QueryEscalationRules" THEN SiteKinds(s) \ {"channel"} ELSE SiteKinds(s)

CollectorSites ==
    {"enrichIncidents", "enrichChannels", "QueryEscalationRules", "QueryIncidentTimeline"}

Transformed == enrichedDetail # NotCalled

\* the person-bearing fields of an event type
RewrittenFields(type) ==
    IF type \in {"i_assign", "i_a_rspd"} THEN {"to", "person_ids"}
    ELSE IF type = "i_notify" THEN {"to"}
    ELSE {}

IsNumber(v) == v.t = "float64"

\* entries lists, in order, one {person_id, person_name?} pair per
\* identifier of values, the name present exactly when the id is resolved
RewrittenTo(values, entries, pm) ==
    LET idents == SelectSeq(values, IsNumber)
    IN /\ Len(entries) = Len(idents)
       /\ (\A i \in DOMAIN values : IsNumber(values[i])) => Len(entries) = Len(values)
       /\ \A j \in 1..Len(idents) :
             /\ entries[j].person_id = idents[j].n
             /\ ("person_name" \in DOMAIN entries[j]) <=> (idents[j].n \in DOMAIN pm)
             /\ idents[j].n \in DOMAIN pm => entries[j].person_name = pm[idents[j].n].PersonName

\* C7: for i_assign and i_a_rspd every identifier in the lists `to` and
\* `person_ids`, and for i_notify every identifier in `to` only, is replaced
\* in list order by one pair {person_id, person_name}, person_name being
\* present exactly when the identifier is in the person mapping.
C7_PersonFieldRewrite ==
    (Transformed /\ ~detail.nil) =>
        /\ ~enrichedDetail.nil
        /\ DOMAIN enrichedDetail.m = DOMAIN detail.m
        /\ \A f \in DOMAIN detail.m :
              IF f \in RewrittenFields(eventType) /\ detail.m[f].t = "list"
              THEN RewrittenTo(detail.m[f].l, enrichedDetail.m[f].l, personMap)
              ELSE enrichedDetail.m[f] = detail.m[f]

\* detail {to: [1, 2]} of an i_assign item with mapping {1: ...} has become
\* {to: [{person_id: 1, person_name: ...}, {person_id: 2}]}
C7_Witness ==
    /\ Transformed
    /\ eventType = "i_assign"
    /\ DOMAIN personMap = {1}
    /\ ~detail.nil
    /\ "to" \in DOMAIN detail.m
    /\ detail.m["to"] = [t |-> "list", l |-> <<[t |-> "float64", n |-> 1], [t |-> "float64", n |-> 2]>>]
    /\ enrichedDetail.m["to"].l =
          <<[person_id |-> 1, person_name |-> PersonInfo(1).PersonName], [person_id |-> 2]>>

\* C8: for an item whose type is not i_notify, i_assign or i_a_rspd the
\* returned detail payload is deep-equal to the input payload.
C8_OtherTypesUnchanged ==
    (Transformed /\ eventType \notin {"i_notify", "i_assign", "i_a_rspd"})
        => enrichedDetail = detail

\* an i_ack item that carries a resolvable identifier in `to`
C8_Witness ==
    /\ Transformed
    /\ eventType = "i_ack"
    /\ ~detail.nil
    /\ "to" \in DOMAIN detail.m
    /\ detail.m["to"].t = "list"
    /\ \E i \in DOMAIN detail.m["to"].l :
          IsNumber(detail.m["to"].l[i]) /\ detail.m["to"].l[i].n \in DOMAIN personMap

\* C17: after the call the caller's detail map has the same keys bound to
\* the same values as before, and the lists it holds are unchanged.
C17_InputNotMutated ==
    Transformed => detailAfter = detail

\* an i_assign detail whose `to` and `person_ids` lists were both rewritten
\* in the returned payload
C17_Witness ==
    /\ Transformed
    /\ eventType = "i_assign"
    /\ ~detail.nil
    /\ DOMAIN detail.m = {"to", "person_ids"}
    /\ detail.m["to"].t = "list" /\ detail.m["to"].l # <<>>
    /\ detail.m["person_ids"].t = "list" /\ detail.m["person_ids"].l # <<>>
    /\ enrichedDetail.m["to"].t = "persons"
    /\ enrichedDetail.m["person_ids"].t = "persons"
    /\ enrichedDetail # detail

\* a person-bearing field of unexpected shape: not a list, or a list that
\* holds something that is not a number
Malformed(v) == v.t # "list" \/ \E i \in DOMAIN v.l : ~IsNumber(v.l[i])

\* C18: a `to` or `person_ids` field of unexpected shape in an i_notify,
\* i_assign or i_a_rspd detail is returned exactly as it is in the input,
\* with the same elements and the same length.
C18_MalformedFieldLeftAsIs ==
    (Transformed /\ ~detail.nil) =>
        \A f \in RewrittenFields(eventType) \cap DOMAIN detail.m :
            Malformed(detail.m[f]) => enrichedDetail.m[f] = detail.m[f]

(***************************************************************************)
(* Properties of the server configuration                                  *)
(***************************************************************************)
\* C9: in a Streamable-HTTP session whose URL carries read_only=true no
\* write tool is listed and no write tool can be invoked.
C9_RemoteReadOnly ==
    (transport = "http" /\ connected /\ readOnlyParam = "true")
        => /\ listed # NotListed => listed \cap WriteTools = {}
           /\ ~(lastCall.ran /\ lastCall.tool \in WriteTools)

(***************************************************************************)
(* Properties of credential masking                                        *)
(***************************************************************************)
\* C10: neither the URL makeRequest logs nor the error text it returns
\* contains the client's APP key.
C10_AppKeyNeverExposed ==
    /\ reqPc \in {"logged", "done"} => ~Contains(logged, appKey)
    /\ returnedErr # NoText => ~Contains(returnedErr, appKey)

\* the logged URL alone: its app_key value is the escaped [REDACTED]
LoggedURLMasked ==
    reqPc \in {"logged", "done"}
        => /\ ~Contains(logged, appKey)
           /\ Contains(logged, AppKeyName \o <<"=">> \o QueryEscape(Redacted))

(***************************************************************************)
(* Properties of the trace context                                         *)
(***************************************************************************)
\* C11: for every header ParseTraceparent accepts, ToTraceparent of the
\* parsed context returns exactly that header, and parsing the output again
\* yields the same trace ID, span ID and flags.
C11_TraceparentRoundTrip ==
    /\ tracePc \in {"formatted", "reparsed"} => formatted = traceparent
    /\ tracePc = "reparsed" => reparsed = parsed

\* the part of the round trip that does not depend on the case of the flags
ReparseYieldsSameContext == tracePc = "reparsed" => reparsed = parsed

\* a header of exactly four parts with the required version, lengths and
\* digits has every separator at a fixed position
HeaderLen == Len(Version) + 1 + TraceIDLen + 1 + SpanIDLen + 1 + FlagsLen

IsHexChar(c) ==
    c \in {"0", "1", "2", "3", "4", "5", "6", "7", "8", "9",
           "a", "b", "c", "d", "e", "f", "A", "B", "C", "D", "E", "F"}

WellFormed(h) ==
    LET t0 == Len(Version) + 1
        s0 == t0 + TraceIDLen + 1
        f0 == s0 + SpanIDLen + 1
    IN  /\ Len(h) = HeaderLen
        /\ SubSeq(h, 1, Len(Version)) = Version
        /\ h[t0] = "-" /\ h[s0] = "-" /\ h[f0] = "-"
        /\ \A i \in (t0 + 1)..(s0 - 1) : IsHexChar(h[i])
        /\ \E i \in (t0 + 1)..(s0 - 1) : h[i] # "0"
        /\ \A i \in (s0 + 1)..(f0 - 1) : IsHexChar(h[i])
        /\ \E i \in (s0 + 1)..(f0 - 1) : h[i] # "0"
        /\ \A i \in (f0 + 1)..HeaderLen : IsHexChar(h[i])

\* C12: ParseTraceparent accepts a header exactly when it is well formed;
\* for any other header FromHTTPHeaders yields nothing and
\* FromHTTPHeadersOrNew returns a newly generated context.
C12_TraceparentValidation ==
    /\ tracePc = "parsed" => (parsed.ok <=> WellFormed(traceparent))
    /\ (tracePc = "resolved" /\ ~WellFormed(traceparent))
           => /\ ~FromHTTPHeaders(traceparent, tracestate).ok
              /\ resolved \in NewTraceContexts
              /\ resolved.TraceState = <<>>

C12_Witness ==
    /\ tracePc = "resolved"
    /\ Len(traceparent) = HeaderLen
    /\ ~WellFormed(traceparent)
    /\ resolved.ok

(***************************************************************************)
(* Properties of log truncation                                            *)
(***************************************************************************)
\* C13: for non-negative sizes TruncateBody returns the body unchanged
\* exactly when it is no longer than maxSize, and otherwise the LARGE_BODY
\* form with the body's length and a prefix of the body that is no longer
\* than previewSize and no longer than maxSize.
C13_TruncationBoundsPreview ==
    (truncPc = "done" /\ maxSize >= 0 /\ previewSize >= 0)
        => /\ ~truncated.panic
           /\ (truncated.s = truncBody) <=> (Len(truncBody) <= maxSize)
           /\ Len(truncBody) > maxSize
                  => \E n \in 0..Len(truncBody) :
                         /\ n <= previewSize
                         /\ n <= maxSize
                         /\ truncated.s = LargeBody(Len(truncBody), SubSeq(truncBody, 1, n))

(***************************************************************************)
(* Properties of create_status_incident                                    *)
(***************************************************************************)
\* C14: the request create_status_incident sends carries
\* notify_subscribers = true when the argument is omitted, and false only
\* when the caller passed false.
C14_NotifySubscribersDefaultsTrue ==
    statusBody.sent
        => /\ "notify_subscribers" \notin DOMAIN statusArgs
                  => statusBody.body.notify_subscribers = TRUE
           /\ statusBody.body.notify_subscribers = FALSE
                  => /\ "notify_subscribers" \in DOMAIN statusArgs
                     /\ statusArgs["notify_subscribers"] = JBool(FALSE)

(***************************************************************************)
(* Further properties of the enrichment engine                             *)
(***************************************************************************)
GracefulSites == {"enrichChannels", "QueryEscalationRules"}

\* the call went through its fan-out and the caller never cancelled it
JoinedUncancelled == Returned /\ ~ctxDone /\ ~ReturnsBeforeFanOut(site, input)

\* C15: in enrichChannels and in escalation-rule enrichment a lookup that
\* fails (not by cancellation) leaves only its own mapping empty: no other
\* lookup is cancelled, every successful lookup's mapping is the one built
\* from its response and is used in the join, and the call succeeds.
C15_DegradingBranchesIsolated ==
    (site \in GracefulSites /\ JoinedUncancelled)
        => /\ ret.status = "ok"
           /\ ret.err = NilErr
           /\ Len(ret.out) = Len(input.items)
           /\ \A k \in SiteKinds(site) :
                 /\ taskErr[k].cause # "canceled"
                 /\ taskErr[k] # NilErr => maps[k] = EmptyMap
           /\ ret.out \in EnrichOutputs(site, input, maps)
           /\ \A r \in PersonRefs(site, ret.out) :
                 r.id \in DOMAIN maps["person"] => r.name = PersonInfo(r.id).PersonName

C15_Witness ==
    /\ site \in GracefulSites
    /\ JoinedUncancelled
    /\ taskErr["team"].cause = "api"
    /\ maps["person"] # EmptyMap
    /\ \E r \in PersonRefs(site, ret.out) : r.name # NoName

\* the nonzero identifiers of a collected list
NonZeroIDs(list) == {list[i] : i \in 1..Len(list)} \ {0}

\* the lookup of kind k reached the remote API: it is in flight, or it
\* returned something other than the refusal of a cancelled context
ReachedAPI(k) ==
    \/ task[k] = "inflight"
    \/ task[k] = "done" /\ taskErr[k].cause = "api"
    \/ task[k] = "done" /\ taskErr[k] = NilErr /\ NonZeroIDs(ids[k]) # {}

FieldOf(list, field) == [i \in 1..Len(list) |-> list[i][field]]

\* the lists of enriched record e that are rebuilt from a list of raw
\* record r hold r's elements in r's order
ListsInRawOrder(kind, r, e) ==
    IF kind = "incident"
    THEN FieldOf(e.Responders, "PersonID") = FieldOf(r.Responders, "PersonID")
    ELSE /\ FieldOf(e.Persons, "PersonID") = r.PersonIDs
         /\ FieldOf(e.Teams, "TeamID") = r.TeamIDs
         /\ FieldOf(e.Webhooks, "Settings") = FieldOf(r.Webhooks, "Settings")
         /\ FieldOf(e.Webhooks, "Type") = FieldOf(r.Webhooks, "Type")
         /\ e.NotifyBy.Critical = r.By.Critical
         /\ Range(FieldOf(e.Schedules, "ScheduleID")) = DOMAIN r.ScheduleToRoleIDs
         /\ Len(e.Schedules) = Cardinality(DOMAIN r.ScheduleToRoleIDs)

\* the lists rebuilt from a raw list keep the raw order in every execution
RawListsKeepOrder ==
    \A k \in DOMAIN joinOut : ListsInRawOrder(joinInput.kind, joinInput.raw, joinOut[k])

\* C19: the rebuilt nested lists (responders; person, team and schedule
\* targets, notify-by entries and webhooks of a layer) hold the raw record's
\* elements in the raw record's order, and every execution on the same
\* input builds the same lists.
C19_NestedOrderPreserved ==
    /\ RawListsKeepOrder
    /\ \A k1, k2 \in DOMAIN joinOut : joinOut[k1] = joinOut[k2]

(***************************************************************************)
(* Properties of the timeline collector                                    *)
(***************************************************************************)
IsNonZeroNumber(v) == IsNumber(v) /\ v.n # 0

\* the nonzero numbers of field f of an item's detail payload, in order
NonZeroNumbers(item, f) ==
    IF ~item.Detail.nil /\ f \in DOMAIN item.Detail.m /\ item.Detail.m[f].t = "list"
    THEN LET sel == SelectSeq(item.Detail.m[f].l, IsNonZeroNumber)
         IN [i \in 1..Len(sel) |-> sel[i].n]
    ELSE <<>>

\* what one item is to contribute
Contribution(item) ==
    (IF item.PersonID # 0 THEN <<item.PersonID>> ELSE <<>>) \o
    (CASE item.Type \in {"i_assign", "i_a_rspd"} ->
              NonZeroNumbers(item, "to") \o NonZeroNumbers(item, "person_ids")
       [] item.Type = "i_notify" -> NonZeroNumbers(item, "to")
       [] OTHER -> <<>>)

\* C20: collectTimelinePersonIDs returns, item after item, the operator
\* identifier when nonzero, then the nonzero numbers of `to` and
\* `person_ids` for i_assign and i_a_rspd, of `to` only for i_notify, and
\* nothing from the detail for any other type; it returns for every payload.
C20_TypeDispatchedCollection ==
    collected.done =>
        collected.ids = Flatten([i \in 1..Len(timeline) |-> Contribution(timeline[i])])

\* an i_notify item followed by an i_ack item with a nonzero operator whose
\* detail holds an identifier in `to`: only the two operators and the first
\* item's `to` are collected
C20_Witness ==
    /\ collected.done
    /\ Len(timeline) = 2
    /\ timeline[2].Type = "i_ack"
    /\ timeline[2].PersonID = MaxDetailID
    /\ ~timeline[2].Detail.nil
    /\ "to" \in DOMAIN timeline[2].Detail.m
    /\ timeline[2].Detail.m["to"] = [t |-> "list", l |-> <<[t |-> "float64", n |-> 2]>>]
    /\ collected.ids = <<MaxDetailID, 1, MaxDetailID>>

\* C21: in enrichIncidents, enrichChannels and the escalation-rule
\* enrichment each resolved-mapping variable is written by at most one task,
\* by the task of its own lookup, and the join has read the mappings only
\* when every task that writes one has finished.
C21_NoConcurrentlyWrittenState ==
    site \in {"enrichIncidents", "enrichChannels", "QueryEscalationRules"} =>
        /\ \A v \in Kinds : Cardinality(writers[v]) <= 1
        /\ \A k \in Kinds : task[k] = "done" => writers[k] = {k}
        /\ (pc = "done" /\ ~ReturnsBeforeFanOut(site, input)) =>
              \A k \in SiteKinds(site) : task[k] = "done"

\* the escalation-rule enrichment has joined after its four tasks wrote
\* their four mappings, the schedule lookup having failed
C21_Witness ==
    /\ site = "QueryEscalationRules"
    /\ pc = "done"
    /\ \A k \in Kinds : writers[k] = {k}
    /\ taskErr["schedule"].cause = "api"
    /\ maps["person"] # EmptyMap

\* no lookup task of the call is waiting to run or in flight
NoTaskRunning == \A k \in Kinds : task[k] \in {"absent", "done"}

\* C22: the call returns, with a result or an error, only when every lookup
\* task it started has finished, also when a task has already failed; and
\* it does return when each lookup ends.
C22_FanInCompletion ==
    /\ [](Returned => NoTaskRunning)
    /\ <>Returned

\* enrichIncidents has returned the person lookup's error after the channel
\* lookup, still in flight when the person lookup failed, ended too
C22_Witness ==
    /\ site = "enrichIncidents"
    /\ Returned
    /\ ret.status = "error"
    /\ taskErr["person"] = ApiErr("person")
    /\ taskErr["channel"] = CancelErr("channel")
    /\ Len(requests["channel"]) = 1
    /\ NoTaskRunning

\* the lookups of the call that failed on their own, not by cancellation
FailedOnTheirOwn == {k \in Kinds : taskErr[k].cause = "api"}

\* C23: when the caller's context is not cancelled and exactly one lookup
\* of enrichIncidents fails on its own, the shared scope is cancelled and
\* enrichIncidents returns that lookup's error, not the cancellation error
\* its sibling may have observed.
C23_RootCauseError ==
    (site = "enrichIncidents" /\ Returned /\ ~ctxDone /\ Cardinality(FailedOnTheirOwn) = 1) =>
        /\ gctxDone
        /\ ret.status = "error"
        /\ \A k \in FailedOnTheirOwn : ret.err = ApiErr(k)

\* the channel lookup failed while the person lookup was in flight; the
\* person lookup then ended with the cancellation error
C23_Witness ==
    /\ site = "enrichIncidents"
    /\ Returned
    /\ ~ctxDone
    /\ taskErr["channel"] = ApiErr("channel")
    /\ taskErr["person"] = CancelErr("person")
    /\ ret.err = ApiErr("channel")

(***************************************************************************)
(* Properties of the per-incident fan-out                                  *)
(***************************************************************************)
SomeFetchFailed == \E i \in Positions : fetchErr[i] # NilErr

\* C24: the task of the i-th requested incident is the only task that
\* writes result slot i; a call that answers lists the incidents in request
\* order, each with its own alerts or timeline, whatever the order in which
\* the tasks completed; and a call in which a task failed returns an error
\* and no results.
C24_PositionalFanOut ==
    /\ \A i \in Positions : slotWriters[i] \subseteq {i}
    /\ (incPc = "done" /\ SomeFetchFailed) =>
          toolResult.status = "error" /\ toolResult.out = <<>>
    /\ (incPc = "done" /\ toolResult.status = "ok") =>
          /\ Len(toolResult.out) = Len(incidentIDs)
          /\ \A i \in Positions :
                /\ toolResult.out[i].IncidentID = incidentIDs[i]
                /\ Len(toolResult.out[i].Items) = Len(Fetched(incTool, incidentIDs[i]))
                /\ incTool # "query_incident_timeline" =>
                      toolResult.out[i].Items = RemoteAlerts(incidentIDs[i])
                /\ incTool = "query_incident_timeline" =>
                      \A j \in DOMAIN toolResult.out[i].Items :
                         /\ toolResult.out[i].Items[j].Type =
                               RemoteTimeline(incidentIDs[i])[j].Type
                         /\ toolResult.out[i].Items[j].OperatorID =
                               RemoteTimeline(incidentIDs[i])[j].PersonID

\* query_incident_alerts for i1, i2 answered in request order
C24_Witness ==
    /\ incTool = "query_incident_alerts"
    /\ incidentIDs = <<"i1", "i2">>
    /\ incPc = "done"
    /\ toolResult.status = "ok"
    /\ toolResult.out[1] = [IncidentID |-> "i1", Items |-> RemoteAlerts("i1")]
    /\ toolResult.out[2] = [IncidentID |-> "i2", Items |-> RemoteAlerts("i2")]

\* C25: query_incident_timeline calls the person lookup once per call, only
\* after every timeline fetch has succeeded, with the identifiers collected
\* from all the fetched timelines; the lookup runs on the caller's context,
\* so it ends with a cancellation only when the caller cancelled.
C25_TwoPhaseTimeline ==
    /\ Len(personLookups) <= 1
    /\ incTool # "query_incident_timeline" => personLookups = <<>>
    /\ personLookups # <<>> =>
          /\ \A i \in Positions : fetchTask[i] = "done" /\ fetchErr[i] = NilErr
          /\ personLookups[1] =
                Flatten([i \in Positions |->
                           collectTimelinePersonIDs(RemoteTimeline(incidentIDs[i]))])
    /\ (incTool = "query_incident_timeline" /\ incPc = "done" /\ ~SomeFetchFailed) =>
          Len(personLookups) = 1
    /\ lookupErr.cause = "canceled" => incCtxDone

\* the timelines of i1 and i2 were fetched, the fan-out's context was
\* cancelled by g.Wait(), and the one lookup for persons 1 and 2 succeeded
C25_Witness ==
    /\ incTool = "query_incident_timeline"
    /\ incidentIDs = <<"i1", "i2">>
    /\ incPc = "done"
    /\ incGctxDone
    /\ ~incCtxDone
    /\ personLookups = <<<<1, 2>>>>
    /\ lookupErr = NilErr
    /\ toolResult.status = "ok"
    /\ toolResult.out[1].Items[1].OperatorName = PersonInfo(1).PersonName

(***************************************************************************)
(* Properties of the client cache                                          *)
(***************************************************************************)
ConstructedFor(key) == {i \in DOMAIN constructed : constructed[i].appKey = key}

\* C26: for each APP key at most one Client is constructed, and every call
\* for that key returns the Client stored in clientCache; a call with an
\* empty APP key returns an error and stores nothing.
C26_ClientCacheUniqueness ==
    /\ \A key \in QueryAppKeys : Cardinality(ConstructedFor(key)) <= 1
    /\ \A r \in DOMAIN gotClient :
          getPc[r] = "done" =>
             IF reqQuery[r].app_key = ""
             THEN gotClient[r].status = "error" /\ "" \notin DOMAIN clientCache
             ELSE /\ gotClient[r].status = "ok"
                  /\ gotClient[r].client = clientCache[reqQuery[r].app_key]

\* C27: the Client returned for a request targets the base URL of that
\* request's configuration: its base_url parameter, or the server default.
C27_BaseURLHonoured ==
    \A r \in DOMAIN gotClient :
        (getPc[r] = "done" /\ gotClient[r].status = "ok") =>
            gotClient[r].client.baseURL = ConfigOf(reqQuery[r]).BaseURL

(***************************************************************************)
(* Properties of update_incident                                           *)
(***************************************************************************)
\* C28: whenever update_incident returns an error result, no update of the
\* call has been applied to the incident.
C28_UpdateAllOrNothing ==
    (updPc = "done" /\ updResult.isError) => applied = <<>>

(***************************************************************************)
(* Shape of the join                                                       *)
(***************************************************************************)
SameIncidentIdentifiers(r, e) ==
    /\ e.IncidentID = r.IncidentID
    /\ e.ChannelID = r.ChannelID
    /\ e.CreatorID = r.CreatorID
    /\ e.CloserID = r.CloserID
    /\ Len(e.Responders) = Len(r.Responders)
    /\ \A j \in 1..Len(r.Responders) : e.Responders[j].PersonID = r.Responders[j].PersonID

SameChannelIdentifiers(r, e) ==
    /\ e.ChannelID = r.ChannelID
    /\ e.TeamID = r.TeamID
    /\ e.CreatorID = r.CreatorID

\* C29: on success enrichIncidents and enrichChannels return one record per
\* raw record, in the same order, each with the identifiers of its raw
\* record (incident, channel, creator, closer and responder persons; channel,
\* team and creator), whatever the lookups returned.
C29_JoinPreservesShape ==
    shapeRet.status = "ok" =>
        /\ Len(shapeRet.out) = Len(shapeItems)
        /\ \A i \in 1..Len(shapeItems) :
              IF shapeSite = "enrichIncidents"
              THEN SameIncidentIdentifiers(shapeItems[i], shapeRet.out[i])
              ELSE SameChannelIdentifiers(shapeItems[i], shapeRet.out[i])

\* two channels in an order their identifiers tell, no lookup resolved
\* anything
C29_Witness ==
    /\ shapeRet.status = "ok"
    /\ shapeSite = "enrichChannels"
    /\ Len(shapeItems) = 2
    /\ shapeItems[1].ChannelID > shapeItems[2].ChannelID
    /\ shapeItems[1].TeamID # 0
    /\ shapeMaps["team"] = EmptyMap
    /\ shapeMaps["person"] = EmptyMap
    /\ shapeRet.out[1].ChannelID = shapeItems[1].ChannelID
    /\ shapeRet.out[2].ChannelID = shapeItems[2].ChannelID

(***************************************************************************)
(* Agreement of the timeline collector and the timeline transformer        *)
(***************************************************************************)
\* the transformer looks id up when resolving id alone changes its result
LooksUp(items, id) ==
    enrichTimelineItems(items, BuildMap("person", {id})) # enrichTimelineItems(items, EmptyMap)

TransformerLookups(items) == {id \in DetailIDs : LooksUp(items, id)}

\* C30 as stated: every identifier enrichTimelineItems looks up in the
\* person mapping is in the result of collectTimelinePersonIDs for the same
\* items.
C30_EveryLookupCollected ==
    events.done => TransformerLookups(timeline) \subseteq Range(collected.ids)

\* C30 amended: every nonzero identifier enrichTimelineItems looks up is in
\* the result of collectTimelinePersonIDs for the same items; when the
\* lookup returns every collected person, the enriched timeline carries
\* every name it would carry with all persons known.
C30_NonZeroLookupsCollected ==
    events.done =>
        /\ TransformerLookups(timeline) \ {0} \subseteq Range(collected.ids)
        /\ DOMAIN timelinePersons = UniqueIDs(collected.ids) =>
              events.out = enrichTimelineItems(timeline, BuildMap("person", DetailIDs \ {0}))

\* an i_assign item without operator whose person_ids names a person: that
\* person is collected and resolved, and the transformer also looks up 0
C30_Witness ==
    /\ events.done
    /\ Len(timeline) = 1
    /\ timeline[1].Type = "i_assign"
    /\ timeline[1].PersonID = 0
    /\ ~timeline[1].Detail.nil
    /\ DOMAIN timeline[1].Detail.m = {"person_ids"}
    /\ timeline[1].Detail.m["person_ids"] = [t |-> "list", l |-> <<[t |-> "float64", n |-> MaxDetailID]>>]
    /\ collected.ids = <<MaxDetailID>>
    /\ MaxDetailID \in DOMAIN timelinePersons
    /\ TransformerLookups(timeline) = {0, MaxDetailID}

====
